---- MODULE Spec2Model ----
(***************************************************************************)
(* Operational resilience layer of the Mission Control HQ worker:          *)
(*   - RateLimiter (hq/src/rate-limiter.ts, here src/unnamed/part_010)     *)
(*   - GhostRecon dead-man fuse (hq/src/ghost-recon.ts, src/unnamed/       *)
(*     part_011) and the routes that serve it (hq/src/router.ts, here      *)
(*     src/unnamed/part_007)                                               *)
(*   - PagerDutyMonitor (hq/src/pagerduty.ts)                              *)
(* Time is the value of Date.now() in milliseconds.  The KV namespaces are *)
(* functions from keys to stored values with a per-key expiry time.        *)
(***************************************************************************)
EXTENDS Integers, Sequences, FiniteSets, TLC

VARIABLES
    now,        \* the wall clock, Date.now(), in ms
    ticks,      \* number of clock advances made so far
    cfg,        \* the RateLimiter's parsed config (fixed after construction)
    kv,         \* env.RATE_LIMITS: key -> stored window (sequence of timestamps) or Absent
    kvExp,      \* env.RATE_LIMITS: key -> expiry time of the stored value
    proc,       \* the checkLimit calls in flight: task -> [pc, id, ep, t, data]
    log,        \* completed checkLimit calls, in completion order
    idLog,      \* completed getIdentifier calls, in order
    apiLog,     \* requests answered by the /api/* route, the last ones
    fuseBound,  \* whether env.DEAD_MAN_FUSE is bound
    fuseKV,     \* env.DEAD_MAN_FUSE at key fuse:{deployment}: the stored value
    fuseExp,    \* expiry time of the stored value
    fuseOps,    \* number of updateDeadManFuse calls and out-of-band writes so far
    lastRefresh,\* the last of those: [kind, t]
    fuseResult, \* the last checkDeadManFuse() call: [called, t, active]
    hqLog,      \* requests answered by the /api/ghost/* routes, in order
    audit,      \* env.AUDIT_LOG: the puts made, in order, as [key, value, expires]
    auditBound, \* whether env.AUDIT_LOG is bound
    ghostSecret,\* env.GHOST_SIGNATURE
    sigCalls,   \* completed generate/verifyHeartbeatSignature calls, in order
    canaryEnv,  \* env.CANARY_PERCENT
    ghostArg,   \* the config argument the GhostRecon in use was constructed with
    canaryLog,  \* completed shouldServeCanary and applyGhostHeaders calls, in order
    pdCfg,      \* the PagerDutyMonitor's parsed config (fixed after construction)
    healthBound,\* whether env.HEALTH_CHECK is bound
    health,     \* env.HEALTH_CHECK: hostname -> stored history or HealthAbsent
    healthExp,  \* env.HEALTH_CHECK: hostname -> expiry time of the stored value
    targetResp, \* hostname -> how the target answers a probe now
    targetUp,   \* hostname -> whether a probe of the target succeeds now
    pagerUp,    \* whether the paging collaborator accepts events now
    pdLog,      \* completed monitor() calls, in order
    pdOpen,     \* the paging collaborator's open incidents
    schedResult \* the last scheduled event: [ran, t, raised]

rlVars   == <<cfg, kv, kvExp, proc, log, idLog, apiLog>>
fuseVars == <<fuseBound, fuseKV, fuseExp, fuseOps, lastRefresh, fuseResult>>
hqVars   == <<hqLog, audit, auditBound>>
sigVars  == <<ghostSecret, sigCalls>>
canVars  == <<canaryEnv, ghostArg, canaryLog>>
pdVars   == <<pdCfg, healthBound, health, healthExp, targetResp, targetUp, pagerUp, pdLog,
             pdOpen, schedResult>>
vars     == <<now, ticks, rlVars, fuseVars, hqVars, sigVars, canVars, pdVars>>

(***************************************************************************)
(* Bounds of the model.                                                    *)
(***************************************************************************)
MaxCalls == 7       \* checkLimit calls per behaviour
MaxTicks == 3       \* clock advances per behaviour
MaxFaultyCalls == 4 \* checkLimit calls per behaviour against a faulty store
NumTasks == 3       \* concurrently running request tasks
MaxRaceCalls == 4   \* checkLimit calls per behaviour of concurrent tasks
MaxRaceTicks == 2   \* clock advances per behaviour of concurrent tasks
MaxFuseOps == 4     \* lease writes per behaviour
MaxServes == 6      \* requests to the /api/ghost/* routes per behaviour
MaxServeTicks == 1  \* clock advances per behaviour of the routes
MaxMonitorTicks == 6  \* monitor() calls per behaviour
MaxMonitorClock == 1  \* clock advances per behaviour of the monitor
MaxStreakTicks == 12  \* monitor() calls per behaviour with long streaks
MaxTargetTicks == 5   \* monitor() calls per behaviour with two targets
MaxLiveLog == 0       \* ticks kept on record when the monitor runs forever
MaxSigCalls == 2       \* signature calls per behaviour
MaxAuditServes == 2    \* requests per behaviour when the audit log is followed
MaxAuditClock == 1     \* clock advances per behaviour when the audit log is followed
MaxHistoryTicks == 11  \* monitor() calls per behaviour when the history is followed
MaxHistoryClock == 1  \* clock advances per behaviour when the history is followed
MaxSchedEvents == 2   \* scheduled events per behaviour
MaxProbeTicks == 2    \* monitor() calls per behaviour against arbitrary responses
MaxCanaryCalls == 2   \* shouldServeCanary and applyGhostHeaders calls per behaviour
MaxIdCalls == 2       \* getIdentifier calls per behaviour
MaxWriteCalls == 3    \* checkLimit calls per behaviour when the writes are followed
MaxWriteTicks == 1    \* clock advances per behaviour when the writes are followed
MaxKeyCalls == 4      \* checkLimit calls per behaviour over several keys
MaxKeyTicks == 1      \* clock advances per behaviour over several keys
MaxStoreServes == 3   \* requests per behaviour when every store is followed
MaxApiCalls == 21     \* requests let through the gate of /api/* per behaviour
MaxApiTicks == 1      \* clock advances per behaviour of the /api/* gate
MaxStoreTicks == 2    \* monitor() calls per behaviour when every store is followed

(***************************************************************************)
(* Program constants.                                                      *)
(***************************************************************************)
BurstWindowMs == 1000     \* oneSecondAgo = now - 1000
TtlBufferSec == 60        \* ttl = ceil(windowMs / 1000) + 60
FuseTtlSec == 300         \* ttl: 300, expirationTtl: 300
DefaultAlertThreshold == 4  \* alertThreshold: z.number().default(4)
CheckIntervalMs == 30000    \* checkInterval: z.number().default(30000)
HistoryCap == 10            \* if (history.length > 10) history.shift()
HealthTtlSec == 3600         \* expirationTtl: 3600
AuditTtlSec == 2592000       \* expirationTtl: 30 * 24 * 60 * 60

Undefined == "undefined"  \* an optional field that is not set

Range(s) == {s[i] : i \in DOMAIN s}

\* Math.min(...xs) for a non-empty array
MathMin(xs) == CHOOSE m \in Range(xs) : \A x \in Range(xs) : m <= x

\* Math.ceil(x / d) for integers x and d > 0
MathCeilDiv(x, d) == (x + d - 1) \div d

(***************************************************************************)
(* RateLimiter                                                             *)
(***************************************************************************)
\* new RateLimiter(env, {windowMs: 60000, maxRequests: 5, maxBurst: 3}) of the tests
TestConfig == [windowMs |-> 60000, maxRequests |-> 5, maxBurst |-> 3, keyPrefix |-> "rl"]
\* new RateLimiter(env, {windowMs: 100, maxRequests: 2, maxBurst: 10}) of the tests
ShortConfig == [windowMs |-> 100, maxRequests |-> 2, maxBurst |-> 10, keyPrefix |-> "rl"]
\* two further configs the schema accepts: a short window and a sub-second window
SmallConfig == [windowMs |-> 3000, maxRequests |-> 3, maxBurst |-> 2, keyPrefix |-> "rl"]
SubSecondConfig == [windowMs |-> 500, maxRequests |-> 4, maxBurst |-> 2, keyPrefix |-> "rl"]

Configs == {TestConfig, ShortConfig, SmallConfig, SubSecondConfig}

Identifiers == {"test-user", "ip:unknown"}
HeartbeatPath == "/api/ghost/heartbeat"
ProofPath == "/api/ghost/proof"
BadgePath == "/api/ghost/badge.svg"
RollbackPath == "/api/ghost/rollback"
\* checkLimit's endpoint: 'global' by default, the request's pathname in the middleware
Endpoints == {"global", HeartbeatPath, ProofPath, BadgePath}
Keys == {"rl" \o ":" \o id \o ":" \o ep : id \in Identifiers, ep \in Endpoints}
Tasks == 1..NumTasks

\* const key = `${keyPrefix}:${identifier}:${endpoint}`
KeyOf(c, id, ep) == c.keyPrefix \o ":" \o id \o ":" \o ep

\* what RATE_LIMITS.get resolves with for a missing key (null), and the JSON
\* string {"requests": [...]} that saveWindowData stores
Absent == [null |-> TRUE, requests |-> <<>>]
Stored(requests) == [null |-> FALSE, requests |-> requests]

\* KVNamespace.get: a value past its expirationTtl is gone
KVGet(store, exp, k, t) == IF ~store[k].null /\ t < exp[k] THEN store[k] ELSE Absent

\* getWindowData, after the store's get has resolved with `data`
getWindowData(data) == IF data.null THEN <<>> ELSE data.requests

\* mutant: the window filter keeps an entry that is exactly windowMs old
validRequests_Inclusive(c, requests, t) ==
    SelectSeq(requests, LAMBDA ts : ts >= t - c.windowMs)

\* validRequests = data.requests.filter(timestamp => timestamp > windowStart)
validRequests(c, requests, t) == SelectSeq(requests, LAMBDA ts : ts > t - c.windowMs)

\* mutant: the burst filter keeps an entry that is exactly one second old
recentRequests_Inclusive(c, requests, t) ==
    SelectSeq(validRequests(c, requests, t), LAMBDA ts : ts >= t - BurstWindowMs)

\* recentRequests = validRequests.filter(timestamp => timestamp > oneSecondAgo)
recentRequests(c, requests, t) ==
    SelectSeq(validRequests(c, requests, t), LAMBDA ts : ts > t - BurstWindowMs)

\* the ttl saveWindowData passes as expirationTtl, in seconds
saveTtl(c) == MathCeilDiv(c.windowMs, 1000) + TtlBufferSec

\* mutant: the window check lets one request too many through
checkLimit_OffByOne(c, requests, t) ==
    LET valid == validRequests(c, requests, t)
        recent == recentRequests(c, requests, t)
    IN  IF Len(recent) >= c.maxBurst
        THEN [allowed |-> FALSE, limit |-> c.maxRequests, remaining |-> 0,
              resetAt |-> MathMin(valid) + c.windowMs, retryAfter |-> 1,
              rule |-> "burst", save |-> <<>>]
        ELSE IF Len(valid) > c.maxRequests
        THEN [allowed |-> FALSE, limit |-> c.maxRequests, remaining |-> 0,
              resetAt |-> MathMin(valid) + c.windowMs,
              retryAfter |-> MathCeilDiv(MathMin(valid) + c.windowMs - t, 1000),
              rule |-> "window", save |-> <<>>]
        ELSE [allowed |-> TRUE, limit |-> c.maxRequests,
              remaining |-> c.maxRequests - (Len(valid) + 1),
              resetAt |-> t + c.windowMs, retryAfter |-> Undefined,
              rule |-> "none", save |-> Append(valid, t)]

\* mutant: the window check counts the stored entries instead of the pruned ones
checkLimit_Unpruned(c, requests, t) ==
    LET valid == validRequests(c, requests, t)
        recent == recentRequests(c, requests, t)
    IN  IF Len(recent) >= c.maxBurst
        THEN [allowed |-> FALSE, limit |-> c.maxRequests, remaining |-> 0,
              resetAt |-> MathMin(valid) + c.windowMs, retryAfter |-> 1,
              rule |-> "burst", save |-> <<>>]
        ELSE IF Len(requests) >= c.maxRequests
        THEN [allowed |-> FALSE, limit |-> c.maxRequests, remaining |-> 0,
              resetAt |-> MathMin(requests) + c.windowMs,
              retryAfter |-> MathCeilDiv(MathMin(requests) + c.windowMs - t, 1000),
              rule |-> "window", save |-> <<>>]
        ELSE [allowed |-> TRUE, limit |-> c.maxRequests,
              remaining |-> c.maxRequests - (Len(valid) + 1),
              resetAt |-> t + c.windowMs, retryAfter |-> Undefined,
              rule |-> "none", save |-> Append(valid, t)]

\* checkLimit, from the window read to the decision: the result it returns and,
\* when the request is admitted, the window it saves
checkLimit(c, requests, t) ==
    LET valid == validRequests(c, requests, t)
        recent == recentRequests(c, requests, t)
    IN  IF Len(recent) >= c.maxBurst
        THEN [allowed |-> FALSE, limit |-> c.maxRequests, remaining |-> 0,
              resetAt |-> MathMin(valid) + c.windowMs, retryAfter |-> 1,
              rule |-> "burst", save |-> <<>>]
        ELSE IF Len(valid) >= c.maxRequests
        THEN [allowed |-> FALSE, limit |-> c.maxRequests, remaining |-> 0,
              resetAt |-> MathMin(valid) + c.windowMs,
              retryAfter |-> MathCeilDiv(MathMin(valid) + c.windowMs - t, 1000),
              rule |-> "window", save |-> <<>>]
        ELSE [allowed |-> TRUE, limit |-> c.maxRequests,
              remaining |-> c.maxRequests - (Len(valid) + 1),
              resetAt |-> t + c.windowMs, retryAfter |-> Undefined,
              rule |-> "none", save |-> Append(valid, t)]

\* the result of a call that raised instead of returning
Raised == [allowed |-> Undefined, limit |-> Undefined, remaining |-> Undefined,
           resetAt |-> Undefined, retryAfter |-> Undefined, rule |-> "raised",
           save |-> <<>>]

\* createRateLimitMiddleware's closure: null lets the request through, a 429
\* response stops it, and an exception of checkLimit propagates
middleware(res) ==
    IF res.rule = "raised" THEN "throw"
    ELSE IF ~res.allowed THEN "429" ELSE "pass"

\* the worker's fetch handler: an exception of the router becomes a 500
fetchStatus(mw) == IF mw = "throw" THEN 500 ELSE IF mw = "429" THEN 429 ELSE 200

\* one completed call, as the log keeps it: the key, the time the call read
\* from Date.now(), the value its store read resolved with, the store fault it
\* met ("none", "get" or "put"), its result, and what the middleware and the
\* fetch handler made of it
LogEntry(id, ep, t, stored, fault, res) ==
    [id |-> id, ep |-> ep, t |-> t, stored |-> stored, fault |-> fault,
     res |-> res, mw |-> middleware(res), status |-> fetchStatus(middleware(res))]

IdleTask == [pc |-> "idle", id |-> Undefined, ep |-> Undefined, t |-> 0, data |-> Absent]

\* the clock advances a request can observe under config c
Deltas(c) ==
    IF c.windowMs >= 1000
    THEN {500, 1000, c.windowMs - 500, c.windowMs}
    ELSE {c.windowMs \div 2, c.windowMs, 1000}

InitClock == now = 0 /\ ticks = 0

\* a RateLimiter with one of the configs and RATE_LIMITS empty; keys: the
\* keys the requests of the behaviour can name
InitKeys(configs, keys) ==
    /\ cfg \in configs
    /\ kv = [k \in keys |-> Absent]
    /\ kvExp = [k \in keys |-> 0]
    /\ proc = [p \in Tasks |-> IdleTask]
    /\ log = <<>>
    /\ idLog = <<>>
    /\ apiLog = <<>>

InitRL(configs) == InitKeys(configs, Keys)

\* what DEAD_MAN_FUSE.get resolves with for a missing key (null)
FuseAbsent == [null |-> TRUE, json |-> FALSE, expires |-> FALSE, status |-> Undefined,
               timestamp |-> 0, ttl |-> 0]

InitFuse(bindings) ==
    /\ fuseBound \in bindings
    /\ fuseKV = FuseAbsent
    /\ fuseExp = 0
    /\ fuseOps = 0
    /\ lastRefresh = [kind |-> "none", t |-> 0]
    /\ fuseResult = [called |-> FALSE, t |-> 0, active |-> FALSE]

\* no request served yet, AUDIT_LOG empty
InitGhost(bindings, secrets) ==
    /\ hqLog = <<>> /\ audit = <<>> /\ auditBound \in bindings
    /\ ghostSecret \in secrets /\ sigCalls = <<>>

\* the GHOST_SIGNATURE of the test environment
TestSecret == "test-signature"

\* new GhostRecon(env, config): the config argument, an object with a
\* canaryPercent or nothing
NoConfig == [given |-> FALSE, canaryPercent |-> 0]
ConfigArg(percent) == [given |-> TRUE, canaryPercent |-> percent]
InitCanary(envs, args) == canaryEnv \in envs /\ ghostArg \in args /\ canaryLog = <<>>

\* createRouter: new GhostRecon(env) and createGhostReconMiddleware(env)
InitHQ == InitGhost({TRUE}, {TestSecret}) /\ InitCanary({Undefined}, {NoConfig})

\* the endpoints handleScheduled monitors
ProductionUrl == [host |-> "mission-control-hq-production.utahj4754.workers.dev",
                  path |-> "/api/ghost/heartbeat"]
StagingUrl == [host |-> "mission-control-hq-staging.utahj4754.workers.dev",
               path |-> "/api/ghost/heartbeat"]
Urls == {ProductionUrl, StagingUrl}

\* identifier = new URL(url).hostname
hostname(url) == url.host
Hosts == {hostname(u) : u \in Urls}

\* JavaScript values as the probed body can hold them in its fields
JsUndefined == [type |-> "undefined", v |-> ""]
JsTrue == [type |-> "boolean", v |-> "true"]
JsFalse == [type |-> "boolean", v |-> "false"]
JsString(str) == [type |-> "string", v |-> str]
\* ToBoolean, as ! applies it
truthy(x) ==
    CASE x.type = "undefined" -> FALSE
      [] x.type = "boolean" -> x.v = "true"
      [] x.type = "string" -> x.v # ""

\* what response.json() can yield: a rejection (the body is not JSON), null,
\* or an object with its signature and verified fields
NoBody == [json |-> "none", signature |-> JsUndefined, verified |-> JsUndefined]
UnparsableBody == [json |-> "unparsable", signature |-> JsUndefined, verified |-> JsUndefined]
NullBody == [json |-> "null", signature |-> JsUndefined, verified |-> JsUndefined]
ObjectBody(signature, verified) ==
    [json |-> "object", signature |-> signature, verified |-> verified]
SignatureValues == {JsUndefined, JsString(""), JsString("abc123:test-signature")}
VerifiedValues == {JsUndefined, JsFalse, JsTrue, JsString("false")}
Bodies == {UnparsableBody, NullBody}
          \cup {ObjectBody(sg, vf) : sg \in SignatureValues, vf \in VerifiedValues}

\* how fetch(url) ends: it rejects (network error, or the 10 s
\* AbortSignal.timeout), or resolves with a response
NetworkError == [kind |-> "network", status |-> 0, body |-> NoBody]
Timeout == [kind |-> "timeout", status |-> 0, body |-> NoBody]
HttpResponse(status, body) == [kind |-> "http", status |-> status, body |-> body]
Responses == {NetworkError, Timeout}
             \cup {HttpResponse(st, b) : st \in {200, 201, 404, 503}, b \in Bodies}
\* what the heartbeat route answers, and an outage of the worker
HealthyResponse == HttpResponse(200, ObjectBody(JsString("abc123:test-signature"), JsTrue))
DownResponse == HttpResponse(503, UnparsableBody)

\* response.ok
responseOk(response) == response.status >= 200 /\ response.status <= 299

\* the message of the error the try block of checkHeartbeat caught
errorMessage(response) ==
    CASE response.kind = "network" -> "Network connection lost."
      [] response.kind = "timeout" -> "The operation was aborted due to timeout"
      [] response.body.json = "unparsable" -> "Unexpected token '<' is not valid JSON"
      [] response.body.json = "null" ->
             "Cannot read properties of null (reading 'signature')"

\* checkHeartbeat(url), given how the fetch ended; status 0: no status
checkHeartbeat(response) ==
    IF response.kind # "http"
    THEN [success |-> FALSE, status |-> 0, verified |-> JsUndefined,
          error |-> errorMessage(response)]
    ELSE IF ~responseOk(response)
    THEN [success |-> FALSE, status |-> response.status, verified |-> JsUndefined,
          error |-> "HTTP " \o ToString(response.status)]
    ELSE IF response.body.json # "object"
    THEN [success |-> FALSE, status |-> 0, verified |-> JsUndefined,
          error |-> errorMessage(response)]
    ELSE IF ~truthy(response.body.signature) \/ ~truthy(response.body.verified)
    THEN [success |-> FALSE, status |-> response.status, verified |-> JsFalse,
          error |-> "Invalid signature"]
    ELSE [success |-> TRUE, status |-> response.status, verified |-> JsTrue,
          error |-> Undefined]

\* what HEALTH_CHECK.get resolves with for a missing key (null), and the JSON
\* array storeHealthResult stores; an entry is kept by its success flag
HealthAbsent == [null |-> TRUE, entries |-> <<>>]
HealthStored(entries) == [null |-> FALSE, entries |-> entries]

\* new PagerDutyMonitor(env, {alertThreshold}) with an empty HEALTH_CHECK; all
\* targets healthy, the paging collaborator reachable
InitPD(thresholds, bindings) ==
    /\ pdCfg \in [alertThreshold : thresholds, checkInterval : {CheckIntervalMs}]
    /\ healthBound \in bindings
    /\ health = [h \in Hosts |-> HealthAbsent]
    /\ healthExp = [h \in Hosts |-> 0]
    /\ targetResp = [h \in Hosts |-> HealthyResponse]
    /\ targetUp = [h \in Hosts |-> TRUE]
    /\ pagerUp = TRUE
    /\ pdLog = <<>>
    /\ pdOpen = {}
    /\ schedResult = [ran |-> FALSE, t |-> 0, raised |-> FALSE]

\* the routes and the monitor as the specifications of the RateLimiter and of
\* the fuse leave them: no request served, the default monitor not yet run
InitRest == InitHQ /\ InitPD({DefaultAlertThreshold}, {TRUE})

\* time passes
Tick(d) ==
    /\ ticks < MaxTicks
    /\ d > 0
    /\ now' = now + d
    /\ ticks' = ticks + 1
    /\ UNCHANGED <<rlVars, fuseVars, hqVars, sigVars, canVars, pdVars>>

\* mutant: a rejected request is pushed and saved too
Request_CountsRejected(id, ep, getOk, putOk) ==
    LET key == KeyOf(cfg, id, ep)
        stored == KVGet(kv, kvExp, key, now)
        res == checkLimit(cfg, getWindowData(stored), now)
    IN  /\ Len(log) < MaxCalls
        /\ log' = Append(log, LogEntry(id, ep, now, stored, "none", res))
        /\ kv' = [kv EXCEPT ![key] =
                     Stored(Append(validRequests(cfg, getWindowData(stored), now), now))]
        /\ kvExp' = [kvExp EXCEPT ![key] = now + saveTtl(cfg) * 1000]
        /\ UNCHANGED <<now, ticks, cfg, idLog, apiLog, proc, fuseVars, hqVars, sigVars,
                       canVars, pdVars>>

\* one request through the rate-limit middleware with no other request for the
\* key in flight: checkLimit runs from its store read to its store write.
\* getOk/putOk: whether RATE_LIMITS.get / RATE_LIMITS.put resolve or reject.
Request(id, ep, getOk, putOk) ==
    LET key == KeyOf(cfg, id, ep)
        stored == KVGet(kv, kvExp, key, now)
        res == checkLimit(cfg, getWindowData(stored), now)
    IN  /\ Len(log) < MaxCalls
        /\ \A p \in Tasks : proc[p].pc = "idle"
        /\ IF ~getOk
           THEN /\ log' = Append(log, LogEntry(id, ep, now, Absent, "get", Raised))
                /\ UNCHANGED <<kv, kvExp>>
           ELSE IF ~res.allowed
           THEN /\ log' = Append(log, LogEntry(id, ep, now, stored, "none", res))
                /\ UNCHANGED <<kv, kvExp>>
           ELSE IF ~putOk
           THEN /\ log' = Append(log, LogEntry(id, ep, now, stored, "put", Raised))
                /\ UNCHANGED <<kv, kvExp>>
           ELSE /\ log' = Append(log, LogEntry(id, ep, now, stored, "none", res))
                /\ kv' = [kv EXCEPT ![key] = Stored(res.save)]
                /\ kvExp' = [kvExp EXCEPT ![key] = now + saveTtl(cfg) * 1000]
        /\ UNCHANGED <<now, ticks, cfg, idLog, apiLog, proc, fuseVars, hqVars, sigVars, canVars, pdVars>>

\* Sequential requests for one key against a working store
Init == InitClock /\ InitRL(Configs) /\ InitFuse({TRUE}) /\ InitRest

Next ==
    \/ \E d \in Deltas(cfg) : Tick(d)
    \/ Request("test-user", "global", TRUE, TRUE)

Spec == Init /\ [][Next]_vars

(***************************************************************************)
(* A client that retries when the Retry-After header says                  *)
(***************************************************************************)
\* the smallest limits the claim about retries admits
MinimalConfig == [windowMs |-> 1500, maxRequests |-> 1, maxBurst |-> 1, keyPrefix |-> "rl"]
RetryConfigs == Configs \cup {MinimalConfig}

\* the client whose last request was answered 429 waits the seconds of the
\* Retry-After header, applyHeaders' result.retryAfter.toString()
RetryWait ==
    /\ Len(log) > 0
    /\ ~log[Len(log)].res.allowed
    /\ now = log[Len(log)].t
    /\ Tick(log[Len(log)].res.retryAfter * 1000)

InitRetry == InitClock /\ InitRL(RetryConfigs) /\ InitFuse({TRUE}) /\ InitRest

NextRetry ==
    \/ \E d \in Deltas(cfg) : Tick(d)
    \/ RetryWait
    \/ Request("test-user", "global", TRUE, TRUE)

SpecRetry == InitRetry /\ [][NextRetry]_vars

(***************************************************************************)
(* Sequential requests against a store whose get and put can reject        *)
(***************************************************************************)
FaultyConfigs == {TestConfig, SmallConfig}

InitFaulty == InitClock /\ InitRL(FaultyConfigs) /\ InitFuse({TRUE}) /\ InitRest

NextFaulty ==
    \/ \E d \in Deltas(cfg) : Tick(d)
    \/ /\ Len(log) < MaxFaultyCalls
       /\ \E getOk \in BOOLEAN, putOk \in BOOLEAN :
             Request("test-user", "global", getOk, putOk)

SpecFaulty == InitFaulty /\ [][NextFaulty]_vars

(***************************************************************************)
(* Concurrent requests: each task's store read and store write are         *)
(* separate steps, and other tasks run in between                          *)
(***************************************************************************)
\* checkLimit is entered: now = Date.now() is read and RATE_LIMITS.get is issued
Call(p, id, ep) ==
    /\ proc[p].pc = "idle"
    /\ Len(log) + Cardinality({q \in Tasks : proc[q].pc # "idle"}) < MaxRaceCalls
    /\ proc' = [proc EXCEPT ![p] = [pc |-> "get", id |-> id, ep |-> ep, t |-> now,
                                    data |-> Absent]]
    /\ UNCHANGED <<now, ticks, cfg, idLog, apiLog, kv, kvExp, log, fuseVars, hqVars, sigVars, canVars, pdVars>>

\* RATE_LIMITS.get resolves: the task filters the window it read and decides;
\* a rejection returns at once, an admission issues RATE_LIMITS.put
GetResolves(p) ==
    LET task == proc[p]
        stored == KVGet(kv, kvExp, KeyOf(cfg, task.id, task.ep), now)
        res == checkLimit(cfg, getWindowData(stored), task.t)
    IN  /\ task.pc = "get"
        /\ IF res.allowed
           THEN /\ proc' = [proc EXCEPT ![p] = [task EXCEPT !.pc = "put", !.data = stored]]
                /\ UNCHANGED log
           ELSE /\ proc' = [proc EXCEPT ![p] = IdleTask]
                /\ log' = Append(log, LogEntry(task.id, task.ep, task.t, stored, "none", res))
        /\ UNCHANGED <<now, ticks, cfg, idLog, apiLog, kv, kvExp, fuseVars, hqVars, sigVars, canVars, pdVars>>

\* RATE_LIMITS.put resolves: the window the task computed replaces the stored
\* one, whatever was written in between, and checkLimit returns allowed
PutResolves(p) ==
    LET task == proc[p]
        key == KeyOf(cfg, task.id, task.ep)
        res == checkLimit(cfg, getWindowData(task.data), task.t)
    IN  /\ task.pc = "put"
        /\ kv' = [kv EXCEPT ![key] = Stored(res.save)]
        /\ kvExp' = [kvExp EXCEPT ![key] = now + saveTtl(cfg) * 1000]
        /\ proc' = [proc EXCEPT ![p] = IdleTask]
        /\ log' = Append(log, LogEntry(task.id, task.ep, task.t, task.data, "none", res))
        /\ UNCHANGED <<now, ticks, cfg, idLog, apiLog, fuseVars, hqVars, sigVars, canVars, pdVars>>

\* a config with the smallest burst cap, and SmallConfig
SingleConfig == [windowMs |-> 3000, maxRequests |-> 2, maxBurst |-> 1, keyPrefix |-> "rl"]
RaceConfigs == {SingleConfig, SmallConfig}

InitRace == InitClock /\ InitRL(RaceConfigs) /\ InitFuse({TRUE}) /\ InitRest

NextRace ==
    \/ ticks < MaxRaceTicks /\ \E d \in Deltas(cfg) : Tick(d)
    \/ \E p \in Tasks : Call(p, "test-user", "global")
    \/ \E p \in Tasks : GetResolves(p)
    \/ \E p \in Tasks : PutResolves(p)

SpecRace == InitRace /\ [][NextRace]_vars

(***************************************************************************)
(* Concurrent requests under one config, the clock advancing between a     *)
(* call's steps                                                            *)
(***************************************************************************)
InitWrite == InitClock /\ InitRL({SmallConfig}) /\ InitFuse({TRUE}) /\ InitRest

NextWrite ==
    \/ ticks < MaxWriteTicks /\ \E d \in Deltas(cfg) : Tick(d)
    \/ /\ Len(log) + Cardinality({q \in Tasks : proc[q].pc # "idle"}) < MaxWriteCalls
       /\ \E p \in Tasks : Call(p, "test-user", "global")
    \/ \E p \in Tasks : GetResolves(p)
    \/ \E p \in Tasks : PutResolves(p)

SpecWrite == InitWrite /\ [][NextWrite]_vars

(***************************************************************************)
(* GhostRecon: the dead-man fuse                                           *)
(***************************************************************************)
\* the JSON string updateDeadManFuse stores: {status, timestamp, region, ttl},
\* put with expirationTtl
Lease(status, t) ==
    [null |-> FALSE, json |-> TRUE, expires |-> TRUE, status |-> status,
     timestamp |-> t, ttl |-> FuseTtlSec]

\* a value under the lease key that JSON.parse rejects, put without expiry
GarbageLease ==
    [null |-> FALSE, json |-> FALSE, expires |-> FALSE, status |-> Undefined,
     timestamp |-> 0, ttl |-> 0]

\* DEAD_MAN_FUSE.get(key) at time t: a value past its expirationTtl is gone
FuseGet(value, exp, t) ==
    IF ~value.null /\ (~value.expires \/ t < exp) THEN value ELSE FuseAbsent

\* mutant: the age is compared with the ttl in seconds
checkDeadManFuse_TtlUnits(bound, data, t) ==
    IF ~bound THEN TRUE
    ELSE IF data.null THEN FALSE
    ELSE IF ~data.json THEN FALSE
    ELSE data.status = "active" /\ t - data.timestamp < data.ttl

\* mutant: the lease's status is not looked at
checkDeadManFuse_IgnoresStatus(bound, data, t) ==
    IF ~bound THEN TRUE
    ELSE IF data.null THEN FALSE
    ELSE IF ~data.json THEN FALSE
    ELSE t - data.timestamp < data.ttl * 1000

\* checkDeadManFuse, given what the store's get resolved with and Date.now()
checkDeadManFuse(bound, data, t) ==
    IF ~bound THEN TRUE
    ELSE IF data.null THEN FALSE
    ELSE IF ~data.json THEN FALSE
    ELSE data.status = "active" /\ t - data.timestamp < data.ttl * 1000

\* what checkDeadManFuse() resolves with when called in the current state
IsFuseActive == checkDeadManFuse(fuseBound, FuseGet(fuseKV, fuseExp, now), now)

\* updateDeadManFuse(status): no store bound, nothing happens; else the lease is
\* written with timestamp = Date.now() and expires from the store after 300 s
updateDeadManFuse(status) ==
    /\ fuseOps < MaxFuseOps
    /\ fuseOps' = fuseOps + 1
    /\ lastRefresh' = [kind |-> status, t |-> now]
    /\ IF fuseBound
       THEN /\ fuseKV' = Lease(status, now)
            /\ fuseExp' = now + FuseTtlSec * 1000
       ELSE UNCHANGED <<fuseKV, fuseExp>>
    /\ UNCHANGED <<now, ticks, rlVars, fuseBound, fuseResult, hqVars, sigVars, canVars, pdVars>>

\* the lease key is overwritten from outside the worker with a value that is
\* not JSON (the namespace is also written by hand with wrangler)
ExternalPut ==
    /\ fuseBound
    /\ fuseOps < MaxFuseOps
    /\ fuseOps' = fuseOps + 1
    /\ lastRefresh' = [kind |-> "external", t |-> now]
    /\ fuseKV' = GarbageLease
    /\ UNCHANGED <<now, ticks, rlVars, fuseBound, fuseExp, fuseResult, hqVars, sigVars, canVars, pdVars>>

\* a call of checkDeadManFuse()
CheckFuse ==
    /\ fuseResult' = [called |-> TRUE, t |-> now, active |-> IsFuseActive]
    /\ UNCHANGED <<now, ticks, rlVars, fuseBound, fuseKV, fuseExp, fuseOps, lastRefresh,
                   hqVars, sigVars, canVars, pdVars>>

\* the clock advances around the lease's 300 s
FuseDeltas == {1000, 150000, 299000, 300000}

InitFuseSpec == InitClock /\ InitRL({TestConfig}) /\ InitFuse(BOOLEAN) /\ InitRest

NextFuse ==
    \/ \E d \in FuseDeltas : Tick(d)
    \/ \E status \in {"active", "inactive"} : updateDeadManFuse(status)
    \/ ExternalPut
    \/ CheckFuse

SpecFuse == InitFuseSpec /\ [][NextFuse]_vars

(***************************************************************************)
(* The /api/ghost/* routes of the router                                   *)
(***************************************************************************)
\* publicRateLimit = createRateLimitMiddleware(env, {60000, 20, 5})
PublicConfig == [windowMs |-> 60000, maxRequests |-> 20, maxBurst |-> 5, keyPrefix |-> "rl"]

\* getIdentifier for a request with no API key and no address header
AnonymousId == "ip:unknown"

\* the environment of the tests, and env.X || fallback
DeploymentId == "test-deployment"
RegionId == "us-west-2"
orElse(value, fallback) == IF value = Undefined \/ value = "" THEN fallback ELSE value

\* GhostReconConfigSchema.parse({}): the config of new GhostRecon(env)
DefaultGhostConfig ==
    [publicKeyUrl |-> "/api/ghost.pub", regionId |-> "us-east-1", canaryPercent |-> 0,
     auditLogKV |-> "AUDIT_LOG"]

\* what Math.random().toString(36).substring(2, 9) can give
Suffixes == {"k3j9x2m", "p0q8w1z"}

\* mutant: the id is the time alone
generateId_TimeOnly(t, suffix) == [t |-> t, suffix |-> ""]

\* generateId: `${Date.now()}-${suffix}`
generateId(t, suffix) == [t |-> t, suffix |-> suffix]
NoId == [t |-> 0, suffix |-> Undefined]

\* mutant: the checkpoint's key holds the time of the id alone
checkpointKey_TimeOnly(id) ==
    [prefix |-> "checkpoint", timestamp |-> 0, id |-> [t |-> id.t, suffix |-> ""]]

\* the keys `audit:${timestamp}:${id}` and `checkpoint:${id}`
auditKey(timestamp, id) == [prefix |-> "audit", timestamp |-> timestamp, id |-> id]
checkpointKey(id) == [prefix |-> "checkpoint", timestamp |-> 0, id |-> id]

\* the entry logAudit writes for the middleware, and the checkpoint
\* createRollbackCheckpoint writes
AuditEntry(id, resource, status, t) ==
    [id |-> id, timestamp |-> t, action |-> "request", actor |-> "unknown",
     resource |-> resource, result |-> IF status < 400 THEN "success" ELSE "failure",
     metadata |-> [status |-> status, canary |-> FALSE]]

\* mutant: the checkpoint is stored under an id of its own
Checkpoint_OwnId(id, t) ==
    [id |-> generateId(t, ""), timestamp |-> t, deployment |-> orElse(DeploymentId, "unknown"),
     region |-> orElse(RegionId, DefaultGhostConfig.regionId), config |-> DefaultGhostConfig]

Checkpoint(id, t) ==
    [id |-> id, timestamp |-> t, deployment |-> orElse(DeploymentId, "unknown"),
     region |-> orElse(RegionId, DefaultGhostConfig.regionId), config |-> DefaultGhostConfig]

\* AUDIT_LOG.put(key, JSON.stringify(value), {expirationTtl}) at time t;
\* ttl 0: no expirationTtl
AuditPut(key, value, ttl, t) == [key |-> key, value |-> value, ttl |-> ttl, t |-> t]

\* AUDIT_LOG after the puts made: the last put of a key is what the key
\* holds, until its expirationTtl has passed
LastPut(puts, key) ==
    LET made == {i \in DOMAIN puts : puts[i].key = key}
    IN  IF made = {} THEN 0 ELSE CHOOSE i \in made : \A j \in made : j <= i
AuditHolds(puts, key, t) ==
    LET i == LastPut(puts, key)
    IN  i # 0 /\ (puts[i].ttl = 0 \/ (t - puts[i].t) \div 1000 < puts[i].ttl)
AuditValue(puts, key) == puts[LastPut(puts, key)].value

\* which put of a request rejects: the AUDIT_LOG.put of
\* createRollbackCheckpoint, the DEAD_MAN_FUSE.put of updateDeadManFuse, the
\* AUDIT_LOG.put of logAudit
RouteFaults == {"none", "checkpoint", "fuse", "audit"}

\* one request to a route, from its gate to its response.  limited: the route
\* runs publicRateLimit first; guarded: it runs authMiddleware first (authOk:
\* whether the credentials verify); checkpoints: it calls
\* createRollbackCheckpoint; badge: it renders checkDeadManFuse();
\* ghostHeaders: it passes its response through applyGhostHeaders, which
\* calls updateDeadManFuse('active') and then logAudit.  Neither the
\* middleware nor the routes catch what these calls throw: a rejected put
\* ends the request in the catch of the worker's fetch handler, which
\* answers 500.  draws: what Math.random gives to the generateId of the
\* checkpoint and to the one of the audit entry.
GhostRouteWith(path, limited, guarded, authOk, checkpoints, badge, ghostHeaders, fault, draws) ==
    LET key == KeyOf(cfg, AnonymousId, path)
        stored == KVGet(kv, kvExp, key, now)
        res == checkLimit(cfg, getWindowData(stored), now)
        passes == ~(limited /\ ~res.allowed) /\ ~(guarded /\ ~authOk)
        checkpointId == generateId(now, draws[1])
        returnsId == passes /\ checkpoints /\ fault # "checkpoint"
        decorates == passes /\ ghostHeaders /\ fault # "checkpoint"
        refreshes == decorates /\ fault # "fuse"
        audits == refreshes /\ auditBound /\ fault # "audit"
        status == IF limited /\ ~res.allowed THEN 429
                  ELSE IF guarded /\ ~authOk THEN 401
                  ELSE IF fault # "none" THEN 500 ELSE 200
        auditId == generateId(now, draws[2])
        written == (IF returnsId /\ auditBound
                    THEN <<AuditPut(checkpointKey(checkpointId),
                                    Checkpoint(checkpointId, now), 0, now)>>
                    ELSE <<>>)
                   \o (IF audits
                       THEN <<AuditPut(auditKey(now, auditId),
                                       AuditEntry(auditId, path, 200, now),
                                       AuditTtlSec, now)>>
                       ELSE <<>>)
    IN  /\ Len(hqLog) < MaxServes
        /\ fault = "checkpoint" => passes /\ checkpoints /\ auditBound
        /\ fault = "fuse" => passes /\ ghostHeaders /\ fuseBound
        /\ fault = "audit" => passes /\ ghostHeaders /\ auditBound
        /\ IF limited
           THEN /\ log' = Append(log, LogEntry(AnonymousId, path, now, stored, "none", res))
                /\ IF res.allowed
                   THEN /\ kv' = [kv EXCEPT ![key] = Stored(res.save)]
                        /\ kvExp' = [kvExp EXCEPT ![key] = now + saveTtl(cfg) * 1000]
                   ELSE UNCHANGED <<kv, kvExp>>
           ELSE UNCHANGED <<kv, kvExp, log>>
        /\ IF refreshes
           THEN /\ fuseOps' = fuseOps + 1
                /\ lastRefresh' = [kind |-> "active", t |-> now]
                /\ IF fuseBound
                   THEN /\ fuseKV' = Lease("active", now)
                        /\ fuseExp' = now + FuseTtlSec * 1000
                   ELSE UNCHANGED <<fuseKV, fuseExp>>
           ELSE UNCHANGED <<fuseOps, lastRefresh, fuseKV, fuseExp>>
        /\ fuseResult' = IF status = 200 /\ badge
                         THEN [called |-> TRUE, t |-> now, active |-> IsFuseActive]
                         ELSE fuseResult
        /\ audit' = audit \o written
        /\ hqLog' = Append(hqLog,
              [path |-> path, t |-> now, status |-> status,
               badge |-> IF status = 200 /\ badge
                         THEN (IF IsFuseActive THEN "operational" ELSE "outage")
                         ELSE "none",
               authOk |-> authOk, fault |-> fault,
               checkpointId |-> IF returnsId THEN checkpointId ELSE NoId,
               checkpointDraw |-> IF returnsId THEN draws[1] ELSE Undefined,
               auditDraw |-> IF audits THEN draws[2] ELSE Undefined])
        /\ UNCHANGED <<now, ticks, cfg, idLog, apiLog, proc, fuseBound, auditBound, sigVars, canVars, pdVars>>

\* the draws of the requests whose ids are not followed
ServeDraws == <<"k3j9x2m", "p0q8w1z">>

\* a request to a route with every store answering
GhostRoute(path, limited, guarded, authOk, checkpoints, badge, ghostHeaders) ==
    GhostRouteWith(path, limited, guarded, authOk, checkpoints, badge, ghostHeaders,
                   "none", ServeDraws)

\* GET /api/ghost/heartbeat
Heartbeat == GhostRoute(HeartbeatPath, TRUE, FALSE, TRUE, FALSE, FALSE, TRUE)
\* GET /api/ghost/proof
Proof == GhostRoute(ProofPath, TRUE, FALSE, TRUE, FALSE, FALSE, TRUE)
\* GET /api/ghost/badge.svg
Badge == GhostRoute(BadgePath, TRUE, FALSE, TRUE, FALSE, TRUE, FALSE)
\* POST /api/ghost/rollback
Rollback(authOk) == GhostRoute(RollbackPath, FALSE, TRUE, authOk, TRUE, FALSE, TRUE)

\* the same requests with a put that can reject and any draws
HeartbeatWith(fault, draws) ==
    GhostRouteWith(HeartbeatPath, TRUE, FALSE, TRUE, FALSE, FALSE, TRUE, fault, draws)
ProofWith(fault, draws) ==
    GhostRouteWith(ProofPath, TRUE, FALSE, TRUE, FALSE, FALSE, TRUE, fault, draws)
\* mutant: the rollback route does not run authMiddleware
RollbackWith_Unguarded(authOk, fault, draws) ==
    GhostRouteWith(RollbackPath, FALSE, FALSE, authOk, TRUE, FALSE, TRUE, fault, draws)
RollbackWith(authOk, fault, draws) ==
    GhostRouteWith(RollbackPath, FALSE, TRUE, authOk, TRUE, FALSE, TRUE, fault, draws)

\* the clock advances around the burst second and the lease's 300 s
ServeDeltas == {1000, 300000}

InitServe ==
    /\ InitClock /\ InitRL({PublicConfig}) /\ InitFuse(BOOLEAN) /\ InitHQ
    /\ InitPD({DefaultAlertThreshold}, {TRUE})

NextServe ==
    \/ ticks < MaxServeTicks /\ \E d \in ServeDeltas : Tick(d)
    \/ Heartbeat
    \/ Proof
    \/ Badge
    \/ \E authOk \in BOOLEAN : Rollback(authOk)

SpecServe == InitServe /\ [][NextServe]_vars

(***************************************************************************)
(* The routes with AUDIT_LOG and DEAD_MAN_FUSE bound or not, puts that can *)
(* reject, and each draw of Math.random                                    *)
(***************************************************************************)
InitAudit ==
    /\ InitClock /\ InitRL({PublicConfig}) /\ InitFuse(BOOLEAN)
    /\ InitGhost(BOOLEAN, {TestSecret}) /\ InitCanary({Undefined}, {NoConfig})
    /\ InitPD({DefaultAlertThreshold}, {TRUE})

\* the clock advances by a millisecond (the 30 days of the audit entries'
\* expirationTtl are 2592000000 ms, beyond the integers here)
NextAudit ==
    \/ ticks < MaxAuditClock /\ Tick(1)
    \/ /\ Len(hqLog) < MaxAuditServes
       /\ \E fault \in RouteFaults :
             \/ \E draws \in {ServeDraws[1]} \X Suffixes :
                   HeartbeatWith(fault, draws) \/ ProofWith(fault, draws)
             \/ \E draws \in Suffixes \X Suffixes :
                   RollbackWith(TRUE, fault, draws)
             \/ RollbackWith(FALSE, fault, ServeDraws)
    \/ Len(hqLog) < MaxAuditServes /\ Badge

SpecAudit == InitAudit /\ [][NextAudit]_vars

(***************************************************************************)
(* Heartbeat signatures                                                    *)
(***************************************************************************)
\* HeartbeatData.metrics: left out, or the four counters
NoMetrics == [defined |-> FALSE, requests |-> 0, errors |-> 0,
              latencyP50 |-> 0, latencyP99 |-> 0]
Metrics(requests, errors, latencyP50, latencyP99) ==
    [defined |-> TRUE, requests |-> requests, errors |-> errors,
     latencyP50 |-> latencyP50, latencyP99 |-> latencyP99]

\* the heartbeat of the tests, and the heartbeats that differ from it in one
\* field, or in one counter of the metrics of the route's heartbeat
BaseHeartbeat ==
    [timestamp |-> 1700000000, service |-> "test-service", region |-> "us-east-1",
     deployment |-> "v1.0.0", status |-> "healthy", metrics |-> NoMetrics]
HeartbeatRecords ==
    {BaseHeartbeat,
     [BaseHeartbeat EXCEPT !.timestamp = 1700000001],
     [BaseHeartbeat EXCEPT !.service = "mission-control-hq"],
     [BaseHeartbeat EXCEPT !.region = "us-west-2"],
     [BaseHeartbeat EXCEPT !.deployment = "v1.0.1"],
     [BaseHeartbeat EXCEPT !.status = "degraded"],
     [BaseHeartbeat EXCEPT !.metrics = Metrics(1000, 5, 25, 150)],
     [BaseHeartbeat EXCEPT !.metrics = Metrics(1000, 6, 25, 150)]}

\* JSON.stringify: a string in quotes
quote(str) == "\"" \o str \o "\""

stringifyMetrics(m) ==
    "{" \o "\"requests\":" \o (ToString(m.requests))
        \o "," \o "\"errors\":" \o (ToString(m.errors))
        \o "," \o "\"latencyP50\":" \o (ToString(m.latencyP50))
        \o "," \o "\"latencyP99\":" \o (ToString(m.latencyP99)) \o "}"

\* mutant: the metrics are left out of the payload
JSONstringify_NoMetrics(data) ==
    "{" \o "\"timestamp\":" \o (ToString(data.timestamp))
        \o "," \o "\"service\":" \o (quote(data.service))
        \o "," \o "\"region\":" \o (quote(data.region))
        \o "," \o "\"deployment\":" \o (quote(data.deployment))
        \o "," \o "\"status\":" \o (quote(data.status)) \o "}"

\* JSON.stringify(data): the members in the order the heartbeat was built
\* with, a member that is undefined left out
JSONstringify(data) ==
    "{" \o "\"timestamp\":" \o (ToString(data.timestamp))
        \o "," \o "\"service\":" \o (quote(data.service))
        \o "," \o "\"region\":" \o (quote(data.region))
        \o "," \o "\"deployment\":" \o (quote(data.deployment))
        \o "," \o "\"status\":" \o (quote(data.status))
        \o (IF data.metrics.defined
            THEN "," \o "\"metrics\":" \o (stringifyMetrics(data.metrics))
            ELSE "")
        \o "}"

\* sha256(payload): the digest in hex, written here as the payload it is the
\* digest of; two payloads have the same digest only if they are the same
sha256(payload) == "sha256(" \o payload \o ")"

\* generateHeartbeatSignature: `${hash}:${signature}` with
\* signature = env.GHOST_SIGNATURE || 'unsigned'
generateHeartbeatSignature(secret, data) ==
    sha256(JSONstringify(data)) \o ":" \o orElse(secret, "unsigned")

\* mutant: a signature made for any heartbeat is accepted
verifyHeartbeatSignature_AnyRecord(secret, data, signature) ==
    \E other \in HeartbeatRecords : signature = generateHeartbeatSignature(secret, other)

\* verifyHeartbeatSignature: signature === expectedSignature
verifyHeartbeatSignature(secret, data, signature) ==
    signature = generateHeartbeatSignature(secret, data)

\* the GHOST_SIGNATURE values: unset, and the one of the tests
Secrets == {Undefined, TestSecret}

\* the signatures presented to verifyHeartbeatSignature: the one made for
\* the heartbeat, the one made for the base heartbeat, the one made with
\* another key, and a string that is no signature
Candidates(data) ==
    {generateHeartbeatSignature(ghostSecret, data),
     generateHeartbeatSignature(ghostSecret, BaseHeartbeat),
     generateHeartbeatSignature("other-signature", data),
     "invalid-signature"}

\* a call of generateHeartbeatSignature
Sign(data) ==
    /\ Len(sigCalls) < MaxSigCalls
    /\ sigCalls' = Append(sigCalls,
          [op |-> "sign", data |-> data, candidate |-> "",
           signature |-> generateHeartbeatSignature(ghostSecret, data), valid |-> FALSE])
    /\ UNCHANGED <<now, ticks, rlVars, fuseVars, hqVars, ghostSecret, canVars, pdVars>>

\* a call of verifyHeartbeatSignature
Verify(data, candidate) ==
    /\ Len(sigCalls) < MaxSigCalls
    /\ sigCalls' = Append(sigCalls,
          [op |-> "verify", data |-> data, candidate |-> candidate, signature |-> "",
           valid |-> verifyHeartbeatSignature(ghostSecret, data, candidate)])
    /\ UNCHANGED <<now, ticks, rlVars, fuseVars, hqVars, ghostSecret, canVars, pdVars>>

InitSign ==
    /\ InitClock /\ InitRL({TestConfig}) /\ InitFuse({TRUE})
    /\ InitGhost({TRUE}, Secrets) /\ InitCanary({Undefined}, {NoConfig})
    /\ InitPD({DefaultAlertThreshold}, {TRUE})

NextSign ==
    \/ \E data \in HeartbeatRecords : Sign(data)
    \/ \E data \in HeartbeatRecords : \E candidate \in Candidates(data) :
          Verify(data, candidate)

SpecSign == InitSign /\ [][NextSign]_vars

(***************************************************************************)
(* Canary membership and the integrity headers                             *)
(***************************************************************************)
\* GhostReconConfigSchema.parse(config || {}); env.CANARY_PERCENT is not read
parseGhostConfig(arg) ==
    [DefaultGhostConfig EXCEPT !.canaryPercent = IF arg.given THEN arg.canaryPercent ELSE 0]

\* the characters of the strings of the model, in runs of consecutive codes
Ascii ==
    <<[first |-> 32, chars |-> " "],
      [first |-> 44, chars |-> ",-./0123456789:"],
      [first |-> 65, chars |-> "ABCDEFGHIJKLMNOPQRSTUVWXYZ"],
      [first |-> 95, chars |-> "_"],
      [first |-> 97, chars |-> "abcdefghijklmnopqrstuvwxyz"]>>

\* the code of each of these characters
CharCode ==
    LET at == {<<r, k>> \in (DOMAIN Ascii) \X (1..26) : k <= Len(Ascii[r].chars)}
    IN  [ch \in {SubSeq(Ascii[a[1]].chars, a[2], a[2]) : a \in at} |->
            LET a == CHOOSE a \in at : SubSeq(Ascii[a[1]].chars, a[2], a[2]) = ch
            IN  Ascii[a[1]].first + a[2] - 1]

\* str.charCodeAt(i - 1)
charCodeAt(str, i) == CharCode[SubSeq(str, i, i)]

\* a 32-bit integer is kept as its two 16-bit halves <<high, low>>.
\* hash = ((hash << 5) - hash) + char; hash = hash & hash: 31 * hash + char
\* cut to 32 bits
hashStep(word, char) ==
    LET low == 31 * word[2] + char
        high == 31 * word[1] + (low \div 65536)
    IN  <<high % 65536, low % 65536>>

\* for (let i = 0; i < str.length; i++) from hash = 0
RECURSIVE hashLoop(_, _, _)
hashLoop(str, i, word) ==
    IF i > Len(str) THEN word ELSE hashLoop(str, i + 1, hashStep(word, charCodeAt(str, i)))

\* the number a 32-bit two's complement word stands for: its sign and its
\* magnitude <<high, low>> (2^31 is <<32768, 0>>)
Int32(word) ==
    IF word[1] >= 32768
    THEN [negative |-> TRUE,
          magnitude |-> IF word[2] = 0 THEN <<65536 - word[1], 0>>
                        ELSE <<65535 - word[1], 65536 - word[2]>>]
    ELSE [negative |-> FALSE, magnitude |-> word]

MathAbs(n) == [n EXCEPT !.negative = FALSE]

\* n % d of JS for 0 < d <= 100: the remainder has the sign of n
jsRem(n, d) ==
    LET r == (((n.magnitude[1] % d) * (65536 % d)) + (n.magnitude[2] % d)) % d
    IN  IF n.negative THEN 0 - r ELSE r

\* mutant: the hash is returned as the 32-bit integer it is
simpleHash_NoAbs(str) == Int32(hashLoop(str, 1, <<0, 0>>))

\* simpleHash(str)
simpleHash(str) == MathAbs(Int32(hashLoop(str, 1, <<0, 0>>)))

\* a request as its CF-Connecting-IP and X-Forwarded-For headers
\* (headers.get gives null for a header that is not there)
CanaryRequest(cf, xff) == [cf |-> cf, xff |-> xff]
NoRequest == CanaryRequest(Undefined, Undefined)
ForwardedChain == "203.0.113.7, 10.0.0.1"
CanaryRequests ==
    {NoRequest,
     CanaryRequest("192.168.1.100", Undefined),
     CanaryRequest(Undefined, "192.168.1.100"),
     CanaryRequest("127.0.0.1", ForwardedChain),
     CanaryRequest(Undefined, ForwardedChain),
     CanaryRequest("", "8.8.8.8")}

\* the request fingerprint of shouldServeCanary
canaryIdentifier(request) == orElse(request.cf, orElse(request.xff, "unknown"))

\* mutant: the clients at or above the percentage are served
shouldServeCanary_Inverted(config, request) ==
    IF config.canaryPercent = 0 THEN FALSE
    ELSE IF config.canaryPercent = 100 THEN TRUE
    ELSE jsRem(simpleHash(canaryIdentifier(request)), 100) >= config.canaryPercent

\* shouldServeCanary(request) of a GhostRecon with the given config
shouldServeCanary(config, request) ==
    IF config.canaryPercent = 0 THEN FALSE
    ELSE IF config.canaryPercent = 100 THEN TRUE
    ELSE jsRem(simpleHash(canaryIdentifier(request)), 100) < config.canaryPercent

\* the headers applyGhostHeaders(response) sets, no content given, with
\* env.DEPLOYMENT_ID and env.REGION_ID as given; Undefined: not set
applyGhostHeaders(deployment, region, config) ==
    [deploymentId |-> orElse(deployment, "unknown"),
     regionId |-> orElse(region, config.regionId),
     canaryDeployment |-> IF config.canaryPercent > 0 THEN "true" ELSE Undefined,
     canaryPercent |-> IF config.canaryPercent > 0
                       THEN ToString(config.canaryPercent) ELSE Undefined]
NoHeaders ==
    [deploymentId |-> Undefined, regionId |-> Undefined, canaryDeployment |-> Undefined,
     canaryPercent |-> Undefined]

\* a call of shouldServeCanary(request) on the GhostRecon in use
ServeCanary(request) ==
    /\ Len(canaryLog) < MaxCanaryCalls
    /\ canaryLog' = Append(canaryLog,
          [op |-> "canary", request |-> request, identifier |-> canaryIdentifier(request),
           arg |-> ghostArg, percent |-> parseGhostConfig(ghostArg).canaryPercent,
           canary |-> shouldServeCanary(parseGhostConfig(ghostArg), request),
           headers |-> NoHeaders])
    /\ UNCHANGED <<now, ticks, rlVars, fuseVars, hqVars, sigVars, canaryEnv, ghostArg, pdVars>>

\* a call of applyGhostHeaders(response) on the GhostRecon in use
ApplyHeaders(deployment, region) ==
    /\ Len(canaryLog) < MaxCanaryCalls
    /\ canaryLog' = Append(canaryLog,
          [op |-> "headers", request |-> NoRequest, identifier |-> Undefined,
           arg |-> ghostArg, percent |-> parseGhostConfig(ghostArg).canaryPercent,
           canary |-> FALSE,
           headers |-> applyGhostHeaders(deployment, region, parseGhostConfig(ghostArg))])
    /\ UNCHANGED <<now, ticks, rlVars, fuseVars, hqVars, sigVars, canaryEnv, ghostArg, pdVars>>

\* new GhostRecon(env, config): the next stage of a ramp
Construct(arg) ==
    /\ arg # ghostArg
    /\ ghostArg' = arg
    /\ UNCHANGED <<now, ticks, rlVars, fuseVars, hqVars, sigVars, canaryEnv, canaryLog, pdVars>>

\* the percentages of the stages of a ramp, and what CANARY_PERCENT is set to
RampStages == {0, 50, 60, 100}
CanaryArgs == {NoConfig} \cup {ConfigArg(p) : p \in RampStages}
CanaryEnvs == {Undefined, "10"}

InitCanarySpec ==
    /\ InitClock /\ InitRL({TestConfig}) /\ InitFuse({TRUE})
    /\ InitGhost({TRUE}, {TestSecret}) /\ InitCanary(CanaryEnvs, CanaryArgs)
    /\ InitPD({DefaultAlertThreshold}, {TRUE})

NextCanary ==
    \/ \E request \in CanaryRequests : ServeCanary(request)
    \/ \E deployment \in {Undefined, DeploymentId} : ApplyHeaders(deployment, RegionId)
    \/ \E arg \in CanaryArgs : Construct(arg)

SpecCanary == InitCanarySpec /\ [][NextCanary]_vars

(***************************************************************************)
(* RateLimiter.getIdentifier                                               *)
(***************************************************************************)
\* n.toString(36) for a number that is not negative, given as <<high, low>>
Digits36 == "0123456789abcdefghijklmnopqrstuvwxyz"
RECURSIVE toString36(_)
toString36(n) ==
    LET rest == (n[1] % 36) * 65536 + n[2]
        quotient == <<n[1] \div 36, rest \div 36>>
        digit == SubSeq(Digits36, (rest % 36) + 1, (rest % 36) + 1)
    IN  IF quotient = <<0, 0>> THEN digit ELSE toString36(quotient) \o digit

\* mutant: the credential is returned as it is
hashString_Raw(str) == str

\* hashString(str): the same loop as simpleHash, then Math.abs(hash).toString(36)
hashString(str) == toString36(MathAbs(Int32(hashLoop(str, 1, <<0, 0>>))).magnitude)

\* str.split(',')[0]
RECURSIVE splitFirst(_, _)
splitFirst(str, i) ==
    IF i > Len(str) THEN str
    ELSE IF SubSeq(str, i, i) = "," THEN SubSeq(str, 1, i - 1)
    ELSE splitFirst(str, i + 1)

\* request.headers.get('X-Forwarded-For')?.split(',')[0]
forwardedFirst(request) ==
    IF request.xff = Undefined THEN Undefined ELSE splitFirst(request.xff, 1)

\* RateLimiter.getIdentifier(request, apiKey)
getIdentifier(request, apiKey) ==
    IF apiKey # Undefined /\ apiKey # ""
    THEN "key:" \o hashString(apiKey)
    ELSE "ip:" \o orElse(request.cf, orElse(forwardedFirst(request), "unknown"))

\* the credentials and the address headers of the requests
ApiKeys == {Undefined, "", "test-api-key", "mc_live_4f9a2e71"}
TestChain == "10.0.0.1, 192.168.1.1"
IdRequests ==
    {CanaryRequest(cf, xff) :
        cf \in {Undefined, "", "192.168.1.1"},
        xff \in {Undefined, "", "10.0.0.1", TestChain, ",10.0.0.1"}}

\* a call of getIdentifier, and the key checkLimit makes of the identifier
\* for the endpoint
Identify(request, apiKey, endpoint) ==
    /\ Len(idLog) < MaxIdCalls
    /\ idLog' = Append(idLog,
          [request |-> request, apiKey |-> apiKey, endpoint |-> endpoint,
           identifier |-> getIdentifier(request, apiKey),
           key |-> KeyOf(cfg, getIdentifier(request, apiKey), endpoint)])
    /\ UNCHANGED <<now, ticks, cfg, kv, kvExp, proc, log, apiLog, fuseVars, hqVars, sigVars,
                   canVars, pdVars>>

InitIdentity == InitClock /\ InitRL({TestConfig}) /\ InitFuse({TRUE}) /\ InitRest

NextIdentity ==
    \E request \in IdRequests, apiKey \in ApiKeys : Identify(request, apiKey, HeartbeatPath)

SpecIdentity == InitIdentity /\ [][NextIdentity]_vars

(***************************************************************************)
(* Sequential requests for several identifiers and endpoints               *)
(***************************************************************************)
\* the (identifier, endpoint) pairs of the requests: the test's user on two
\* endpoints, the clients with no address, a client at 10.0.0.1 asking for
\* /p:/q, and a client whose first forwarded entry is "10.0.0.1:/p" asking for /q
QuotaPairs ==
    {<<"test-user", "global">>, <<"test-user", HeartbeatPath>>,
     <<"ip:unknown", HeartbeatPath>>,
     <<"ip:10.0.0.1", "/p:/q">>, <<"ip:10.0.0.1:/p", "/q">>}

InitQuota ==
    /\ InitClock
    /\ InitKeys({SmallConfig}, {KeyOf(SmallConfig, pair[1], pair[2]) : pair \in QuotaPairs})
    /\ InitFuse({TRUE}) /\ InitRest

NextQuota ==
    \/ ticks < MaxKeyTicks /\ \E d \in Deltas(cfg) : Tick(d)
    \/ Len(log) < MaxKeyCalls /\ \E pair \in QuotaPairs : Request(pair[1], pair[2], TRUE, TRUE)

SpecQuota == InitQuota /\ [][NextQuota]_vars

(***************************************************************************)
(* The /api/* and /api/health routes: the rate-limit gate                  *)
(***************************************************************************)
\* authRateLimit = createRateLimitMiddleware(env, {60000, 100, 10})
AuthConfig == [windowMs |-> 60000, maxRequests |-> 100, maxBurst |-> 10, keyPrefix |-> "rl"]

\* one client address asking for one path, with the Authorization and the
\* X-API-Key header it sends
ClientAddress == "203.0.113.7"
ApiPath == "/api/health"
ApiRequest(authorization, apiKeyHeader) ==
    [cf |-> ClientAddress, xff |-> Undefined, authorization |-> authorization,
     apiKeyHeader |-> apiKeyHeader]
ApiRequests ==
    {ApiRequest(Undefined, Undefined), ApiRequest("Bearer invalid-token", Undefined),
     ApiRequest(Undefined, "wrong-key")}

\* let apiKey; if (apiKeyHeader) apiKey = apiKeyHeader
routeApiKey(request) == orElse(request.apiKeyHeader, Undefined)

\* const rateLimiter = apiKey || authHeader ? authRateLimit : publicRateLimit
rateLimiterOf(request) ==
    IF orElse(routeApiKey(request), request.authorization) # Undefined
    THEN AuthConfig
    ELSE PublicConfig

ApiIdentifiers == {getIdentifier(r, routeApiKey(r)) : r \in ApiRequests}
\* the requests that passed the gate so far, over all identifiers
apiPasses(passes) == {<<id, n>> : id \in DOMAIN passes, n \in 1..MaxApiCalls} \cap
                     UNION {{<<id, n>> : n \in DOMAIN passes[id]} : id \in DOMAIN passes}

\* the handler of /api/* and of /api/health up to its answer: the rate-limit
\* gate, then authMiddleware (valid: whether the credentials of the request
\* verify); a request the gate stops is answered 429, the others 401, 501 or
\* the health report
ApiRoute(request, valid) ==
    LET apiKey == routeApiKey(request)
        limiter == rateLimiterOf(request)
        id == getIdentifier(request, apiKey)
        key == KeyOf(limiter, id, ApiPath)
        stored == KVGet(kv, kvExp, key, now)
        res == checkLimit(limiter, getWindowData(stored), now)
    IN  /\ Cardinality(apiPasses(apiLog.passes)) < MaxApiCalls
        /\ valid => limiter = AuthConfig
        /\ IF ~res.allowed
           THEN /\ apiLog' = [apiLog EXCEPT !.valid = @ \/ valid]
                /\ UNCHANGED <<kv, kvExp>>
           ELSE /\ kv' = [kv EXCEPT ![key] = Stored(res.save)]
                /\ kvExp' = [kvExp EXCEPT ![key] = now + saveTtl(limiter) * 1000]
                /\ apiLog' = [apiLog EXCEPT !.passes[id] = Append(@, now),
                                            !.valid = @ \/ valid]
        /\ UNCHANGED <<now, ticks, cfg, idLog, proc, log, fuseVars, hqVars, sigVars,
                       canVars, pdVars>>

InitApi ==
    /\ InitClock
    /\ cfg = PublicConfig
    /\ kv = [k \in {KeyOf(PublicConfig, id, ApiPath) : id \in ApiIdentifiers} |-> Absent]
    /\ kvExp = [k \in {KeyOf(PublicConfig, id, ApiPath) : id \in ApiIdentifiers} |-> 0]
    /\ proc = [p \in Tasks |-> IdleTask]
    /\ log = <<>>
    /\ idLog = <<>>
    /\ apiLog = [passes |-> [id \in ApiIdentifiers |-> <<>>], valid |-> FALSE]
    /\ InitFuse({TRUE}) /\ InitRest

NextApi ==
    \/ ticks < MaxApiTicks /\ Tick(BurstWindowMs)
    \/ \E request \in ApiRequests, valid \in BOOLEAN : ApiRoute(request, valid)

SpecApi == InitApi /\ [][NextApi]_vars

(***************************************************************************)
(* PagerDutyMonitor                                                        *)
(***************************************************************************)
Max(a, b) == IF a >= b THEN a ELSE b
Min(a, b) == IF a <= b THEN a ELSE b

\* Array.prototype.slice(start, end): a negative index counts from the end,
\* both are clamped to the array
jsSlice(s, start, end) ==
    LET n == Len(s)
        from == IF start < 0 THEN Max(n + start, 0) ELSE Min(start, n)
        to == IF end < 0 THEN Max(n + end, 0) ELSE Min(end, n)
    IN  IF from >= to THEN <<>> ELSE SubSeq(s, from + 1, to)

\* HEALTH_CHECK.get(key) at time t: a value past its expirationTtl is gone
HealthGet(store, exp, h, t) ==
    IF ~store[h].null /\ t < exp[h] THEN store[h] ELSE HealthAbsent

\* getHealthHistory, given what the store's get resolved with
getHealthHistory(bound, data) ==
    IF ~bound THEN <<>> ELSE IF data.null THEN <<>> ELSE data.entries

\* mutant: beyond 10 entries the newest is dropped
pushResult_EvictNewest(history, result) ==
    LET pushed == Append(history, result)
    IN  IF Len(pushed) > HistoryCap THEN SubSeq(pushed, 1, HistoryCap) ELSE pushed

\* storeHealthResult: history.push(result), and shift() beyond 10 entries
pushResult(history, result) ==
    LET pushed == Append(history, result)
    IN  IF Len(pushed) > HistoryCap THEN Tail(pushed) ELSE pushed

\* mutant: the length of the history is not checked
shouldAlert_NoLengthCheck(c, history) ==
    LET recentChecks == jsSlice(history, -c.alertThreshold, Len(history))
    IN  \A i \in DOMAIN recentChecks : ~recentChecks[i]

\* mutant: the failures in the history are counted, contiguous or not
shouldAlert_Count(c, history) ==
    Cardinality({i \in DOMAIN history : ~history[i]}) >= c.alertThreshold

\* shouldAlert on the history getHealthHistory returned (TRUE = a successful check)
shouldAlert(c, history) ==
    IF Len(history) < c.alertThreshold THEN FALSE
    ELSE LET recentChecks == jsSlice(history, -c.alertThreshold, Len(history))
         IN  \A i \in DOMAIN recentChecks : ~recentChecks[i]

\* mutant: only the entry alertThreshold + 1 positions back is looked at
wasFailingBefore_StreakEntry(c, history) ==
    Len(history) > c.alertThreshold /\ ~history[Len(history) - c.alertThreshold]

\* wasFailingBefore = history.slice(-alertThreshold - 1, -1).some(check => !check.success)
wasFailingBefore(c, history) ==
    LET earlier == jsSlice(history, -c.alertThreshold - 1, -1)
    IN  \E i \in DOMAIN earlier : ~earlier[i]

\* mutant: the key does not depend on the target
incidentKey_Shared(identifier) == <<"ghost-recon", "">>

\* incidentKey = `ghost-recon-${identifier}`
incidentKey(identifier) == <<"ghost-recon", identifier>>

\* the paging collaborator on an event it accepted: a trigger opens an
\* incident unless one with the same dedup_key is open, a resolve closes the
\* incidents with that dedup_key
pagerApply(open, action, key, host, ok) ==
    IF ~ok THEN open
    ELSE IF action = "trigger"
    THEN (IF \E i \in open : i.key = key THEN open
          ELSE open \cup {[key |-> key, host |-> host]})
    ELSE IF action = "resolve" THEN {i \in open : i.key # key}
    ELSE open

\* the last n entries of a log
LastN(s, n) == IF Len(s) > n THEN SubSeq(s, Len(s) - n + 1, Len(s)) ELSE s

\* where a HEALTH_CHECK call of a tick can reject: the get of
\* storeHealthResult ("read"), its put ("write"), the get of the
\* getHealthHistory that follows in shouldAlert or in monitor ("reread")
Faults == {"none", "read", "write", "reread"}

\* monitor(url), one tick for one target on the store and the open incidents
\* it finds: probe, store, then trigger or resolve.  triggerIncident and
\* resolveIncident return false when the paging collaborator cannot be
\* reached; monitor ignores what they return.  No call of monitor is inside a
\* try block: a rejected HEALTH_CHECK call ends the tick there (raised).
monitorRun(url, fault, store, exp, open) ==
    LET identifier == hostname(url)
        key == incidentKey(identifier)
        result == checkHeartbeat(targetResp[identifier])
        success == result.success
        before == getHealthHistory(healthBound, HealthGet(store, exp, identifier, now))
        stores == healthBound /\ fault \notin {"read", "write"}
        after == IF stores THEN pushResult(before, success)
                 ELSE IF healthBound THEN before ELSE <<>>
        call == IF fault # "none" THEN "none"
                ELSE IF ~success
                THEN (IF shouldAlert(pdCfg, after) THEN "trigger" ELSE "none")
                ELSE (IF wasFailingBefore(pdCfg, after) THEN "resolve" ELSE "none")
        accepted == call # "none" /\ pagerUp
    IN  [health |-> IF stores THEN [store EXCEPT ![identifier] = HealthStored(after)]
                    ELSE store,
         healthExp |-> IF stores
                       THEN [exp EXCEPT ![identifier] = now + HealthTtlSec * 1000]
                       ELSE exp,
         open |-> pagerApply(open, call, key, identifier, accepted),
         entry |-> [host |-> identifier, t |-> now, result |-> result,
                    success |-> success, before |-> before, after |-> after,
                    call |-> call, key |-> key, ok |-> accepted,
                    fault |-> fault, raised |-> fault # "none"]]

\* one tick for one target with the store answering.  The log keeps the last
\* `keep` ticks.
monitor(url, keep) ==
    \E run \in {monitorRun(url, "none", health, healthExp, pdOpen)} :
        /\ health' = run.health
        /\ healthExp' = run.healthExp
        /\ pdOpen' = run.open
        /\ pdLog' = LastN(Append(pdLog, run.entry), keep)
        /\ UNCHANGED <<now, ticks, rlVars, fuseVars, hqVars, sigVars, canVars, pdCfg, healthBound,
                       targetResp, targetUp, pagerUp, schedResult>>

\* a scheduled event with PAGERDUTY_INTEGRATION_KEY set: handleScheduled
\* awaits Promise.all of monitor(endpoint) for the two endpoints, and the
\* worker's scheduled handler awaits handleScheduled; neither catches.  The
\* two ticks work on different keys; each runs to its end or to its fault.
scheduled(faults, keep) ==
    LET first == monitorRun(ProductionUrl, faults[ProductionUrl], health, healthExp, pdOpen)
        second == monitorRun(StagingUrl, faults[StagingUrl],
                             first.health, first.healthExp, first.open)
    IN  /\ (\E u \in Urls : faults[u] # "none") => healthBound
        /\ health' = second.health
        /\ healthExp' = second.healthExp
        /\ pdOpen' = second.open
        /\ pdLog' = LastN(pdLog \o <<first.entry, second.entry>>, keep)
        /\ schedResult' = [ran |-> TRUE, t |-> now,
                           raised |-> first.entry.raised \/ second.entry.raised]
        /\ UNCHANGED <<now, ticks, rlVars, fuseVars, hqVars, sigVars, canVars, pdCfg, healthBound,
                       targetResp, targetUp, pagerUp>>

\* the target starts or stops answering its heartbeat with a verified signature
TargetFlips(h) ==
    /\ targetUp' = [targetUp EXCEPT ![h] = ~targetUp[h]]
    /\ targetResp' = [targetResp EXCEPT ![h] =
                         IF targetUp[h] THEN DownResponse ELSE HealthyResponse]
    /\ UNCHANGED <<now, ticks, rlVars, fuseVars, hqVars, sigVars, canVars, pdCfg, healthBound, health,
                   healthExp, pagerUp, pdLog, pdOpen, schedResult>>

\* the target starts to answer its probes with the given response
TargetAnswers(h, response) ==
    /\ targetResp' = [targetResp EXCEPT ![h] = response]
    /\ targetUp' = [targetUp EXCEPT ![h] = checkHeartbeat(response).success]
    /\ UNCHANGED <<now, ticks, rlVars, fuseVars, hqVars, sigVars, canVars, pdCfg, healthBound, health,
                   healthExp, pagerUp, pdLog, pdOpen, schedResult>>

\* the paging collaborator becomes unreachable or reachable again
PagerFlips ==
    /\ pagerUp' = ~pagerUp
    /\ UNCHANGED <<now, ticks, rlVars, fuseVars, hqVars, sigVars, canVars, pdCfg, healthBound, health,
                   healthExp, targetResp, targetUp, pdLog, pdOpen, schedResult>>

\* thresholds: alert on the first failure, on the second, and the default
MonitorThresholds == {1, 2, DefaultAlertThreshold}

\* the clock advances by the check interval and by the history's expirationTtl
MonitorDeltas == {CheckIntervalMs, HealthTtlSec * 1000}

\* Sequential ticks for one target
InitMonitor ==
    /\ InitClock /\ InitRL({TestConfig}) /\ InitFuse({TRUE}) /\ InitHQ
    /\ InitPD(MonitorThresholds, BOOLEAN)

NextMonitor ==
    \/ ticks < MaxMonitorClock /\ \E d \in MonitorDeltas : Tick(d)
    \/ Len(pdLog) < MaxMonitorTicks /\ monitor(ProductionUrl, MaxMonitorTicks)
    \/ TargetFlips(hostname(ProductionUrl))
    \/ PagerFlips

SpecMonitor == InitMonitor /\ [][NextMonitor]_vars

(***************************************************************************)
(* Sequential ticks for one target, long enough to fill the history, with  *)
(* the store bound, the paging collaborator reachable and no history       *)
(* expiring                                                                *)
(***************************************************************************)
\* thresholds: the default, the length of the stored history, and one more
StreakThresholds == {DefaultAlertThreshold, HistoryCap, HistoryCap + 1}

InitStreak ==
    /\ InitClock /\ InitRL({TestConfig}) /\ InitFuse({TRUE}) /\ InitHQ
    /\ InitPD(StreakThresholds, {TRUE})

NextStreak ==
    \/ Len(pdLog) < MaxStreakTicks /\ monitor(ProductionUrl, MaxStreakTicks)
    \/ TargetFlips(hostname(ProductionUrl))

SpecStreak == InitStreak /\ [][NextStreak]_vars

(***************************************************************************)
(* Sequential ticks for the two targets of handleScheduled                 *)
(***************************************************************************)
TargetThresholds == {1, 2}

InitTargets ==
    /\ InitClock /\ InitRL({TestConfig}) /\ InitFuse({TRUE}) /\ InitHQ
    /\ InitPD(TargetThresholds, {TRUE})

NextTargets ==
    \/ Len(pdLog) < MaxTargetTicks /\ \E u \in Urls : monitor(u, MaxTargetTicks)
    \/ \E h \in Hosts : TargetFlips(h)
    \/ PagerFlips

SpecTargets == InitTargets /\ [][NextTargets]_vars

(***************************************************************************)
(* The monitor running forever for one target: every scheduled event runs  *)
(* a tick, so ticks keep coming (weak fairness); the stored history never  *)
(* expires between them                                                    *)
(***************************************************************************)
LiveThresholds == {1, 2}

InitLive ==
    /\ InitClock /\ InitRL({TestConfig}) /\ InitFuse({TRUE}) /\ InitHQ
    /\ InitPD(LiveThresholds, {TRUE})

NextLive ==
    \/ monitor(ProductionUrl, MaxLiveLog)
    \/ TargetFlips(hostname(ProductionUrl))
    \/ PagerFlips

SpecLive == InitLive /\ [][NextLive]_vars /\ WF_vars(monitor(ProductionUrl, MaxLiveLog))

(***************************************************************************)
(* Sequential ticks for one target that answers its probes in any way      *)
(***************************************************************************)
InitProbe ==
    /\ InitClock /\ InitRL({TestConfig}) /\ InitFuse({TRUE}) /\ InitHQ
    /\ InitPD(TargetThresholds, BOOLEAN)

NextProbe ==
    \/ Len(pdLog) < MaxProbeTicks /\ monitor(ProductionUrl, MaxProbeTicks)
    \/ \E response \in Responses : TargetAnswers(hostname(ProductionUrl), response)

SpecProbe == InitProbe /\ [][NextProbe]_vars

(***************************************************************************)
(* Scheduled events against a HEALTH_CHECK store whose calls can reject    *)
(***************************************************************************)
InitSched ==
    /\ InitClock /\ InitRL({TestConfig}) /\ InitFuse({TRUE}) /\ InitHQ
    /\ InitPD(TargetThresholds, BOOLEAN)

NextSched ==
    \/ /\ Len(pdLog) < 2 * MaxSchedEvents
       /\ \E faults \in [Urls -> Faults] : scheduled(faults, 2 * MaxSchedEvents)
    \/ \E h \in Hosts : TargetFlips(h)
    \/ PagerFlips

SpecSched == InitSched /\ [][NextSched]_vars

(***************************************************************************)
(* Sequential ticks for one target, more than the history holds, with the  *)
(* store bound and the clock passing the history's expirationTtl           *)
(***************************************************************************)
InitHistory ==
    /\ InitClock /\ InitRL({TestConfig}) /\ InitFuse({TRUE}) /\ InitHQ
    /\ InitPD({DefaultAlertThreshold}, {TRUE})

NextHistory ==
    \/ ticks < MaxHistoryClock /\ Tick(HealthTtlSec * 1000)
    \/ Len(pdLog) < MaxHistoryTicks /\ monitor(ProductionUrl, MaxHistoryTicks)
    \/ TargetFlips(hostname(ProductionUrl))

SpecHistory == InitHistory /\ [][NextHistory]_vars

(***************************************************************************)
(* The routes and the monitor together, every store bound                  *)
(***************************************************************************)
\* mutant: the lease is kept under a key of the audit entries
fuseKey_Audit == "audit:" \o orElse(DeploymentId, "default")

\* const key = `fuse:${this.env.DEPLOYMENT_ID || 'default'}`
fuseKey == "fuse:" \o orElse(DeploymentId, "default")

\* const key = `health:${identifier}`
healthKey(identifier) == "health:" \o identifier

\* `${Date.now()}-${suffix}`, `audit:${timestamp}:${id}` and `checkpoint:${id}`
\* as the strings they are
idString(id) == ToString(id.t) \o "-" \o id.suffix
keyString(key) ==
    IF key.prefix = "audit"
    THEN key.prefix \o ":" \o ToString(key.timestamp) \o ":" \o idString(key.id)
    ELSE key.prefix \o ":" \o idString(key.id)

InitStores ==
    /\ InitClock /\ InitRL({PublicConfig}) /\ InitFuse({TRUE}) /\ InitHQ
    /\ InitPD({DefaultAlertThreshold}, {TRUE})

NextStores ==
    \/ Len(hqLog) < MaxStoreServes /\ Heartbeat
    \/ Len(hqLog) < MaxStoreServes /\ Rollback(TRUE)
    \/ Len(pdLog) < MaxStoreTicks /\ \E url \in Urls : monitor(url, MaxStoreTicks)
    \/ ticks < 1 /\ Tick(1000)

SpecStores == InitStores /\ [][NextStores]_vars

(***************************************************************************)
(* Claims about sequential checkLimit calls (Spec)                         *)
(***************************************************************************)
Admitted(e) == e.res.rule = "none"
Rejected(e) == e.res.rule \in {"burst", "window"}

\* the calls made for one key, in order
KeyCalls(id, ep) == SelectSeq(log, LAMBDA e : e.id = id /\ e.ep = ep)

\* the calls for log[i]'s key that were admitted with a time in (lo, hi]
AdmittedIn(i, lo, hi) ==
    {j \in DOMAIN log : /\ log[j].id = log[i].id /\ log[j].ep = log[i].ep
                        /\ Admitted(log[j])
                        /\ log[j].t > lo /\ log[j].t <= hi}

\* the positions of the timestamps call e read from the store that are newer
\* than e.t - windowMs, and of those newer than e.t - 1000
StoredInWindow(e) ==
    {k \in DOMAIN e.stored.requests : e.stored.requests[k] > e.t - cfg.windowMs}
StoredInLastSecond(e) ==
    {k \in StoredInWindow(e) : e.stored.requests[k] > e.t - 1000}
OldestSurviving(e) ==
    LET S == {e.stored.requests[k] : k \in StoredInWindow(e)}
    IN  CHOOSE m \in S : \A x \in S : m <= x

\* C1: for sequential calls on one key against a working store, the number of
\* admitted calls with admission time in any interval (t - windowMs, t] never
\* exceeds maxRequests.  (The count over (t - windowMs, t] is largest when t
\* is itself an admission time or the present, so t ranges over those.)
C1_WindowQuota ==
    \A i \in DOMAIN log :
        /\ Cardinality(AdmittedIn(i, log[i].t - cfg.windowMs, log[i].t)) <= cfg.maxRequests
        /\ Cardinality(AdmittedIn(i, now - cfg.windowMs, now)) <= cfg.maxRequests

\* C1 witness: the quota is full (maxRequests admitted in the window) and a
\* further call in that window has been turned away by the window rule
C1_Witness ==
    \E i \in DOMAIN log :
        /\ log[i].res.rule = "window"
        /\ Cardinality(AdmittedIn(i, log[i].t - cfg.windowMs, log[i].t)) = cfg.maxRequests

\* C2: whenever at least maxBurst calls admitted for the key have timestamps
\* within the last 1000 ms, checkLimit rejects with allowed = false and
\* retryAfter = 1 (so the (maxBurst+1)-th call within a second is rejected).
C2_BurstCap ==
    \A i \in DOMAIN log :
        (/\ log[i].fault = "none"
         /\ Cardinality(AdmittedIn(i, log[i].t - 1000, log[i].t) \cap 1..(i - 1)) >= cfg.maxBurst)
        => (log[i].res.allowed = FALSE /\ log[i].res.retryAfter = 1)

\* C5: a call is rejected only if, among the stored timestamps newer than
\* now - windowMs, at least maxBurst lie in the last 1000 ms or at least
\* maxRequests lie in the window; the window rule rejects only a call that has
\* maxRequests admitted calls in the window before it; and a call that finds no
\* stored timestamp newer than now - windowMs is admitted.
C5_RejectOnlyWhenFull ==
    \A i \in DOMAIN log :
        LET e == log[i]
        IN  /\ Rejected(e) =>
                \/ Cardinality(StoredInLastSecond(e)) >= cfg.maxBurst
                \/ Cardinality(StoredInWindow(e)) >= cfg.maxRequests
            /\ e.res.rule = "window" =>
                Cardinality(AdmittedIn(i, e.t - cfg.windowMs, e.t) \cap 1..(i - 1))
                    >= cfg.maxRequests
            /\ (e.fault = "none" /\ StoredInWindow(e) = {}) => Admitted(e)

\* C5 witness: a key that was blocked by the window rule is admitted again by a
\* call that finds only timestamps older than the window in the store
C5_Witness ==
    \E i, j \in DOMAIN log :
        /\ i < j
        /\ log[i].id = log[j].id /\ log[i].ep = log[j].ep
        /\ log[i].res.rule = "window"
        /\ Admitted(log[j])
        /\ log[j].stored.requests # <<>>
        /\ StoredInWindow(log[j]) = {}

\* C6: every window-rule rejection returns allowed = false, remaining = 0,
\* resetAt = oldest surviving timestamp + windowMs and
\* retryAfter = ceil((resetAt - now) / 1000), and that retryAfter is >= 1.
C6_WindowRejection ==
    \A i \in DOMAIN log :
        LET e == log[i]
        IN  e.res.rule = "window" =>
                LET reset == OldestSurviving(e) + cfg.windowMs
                IN  /\ Cardinality(StoredInLastSecond(e)) < cfg.maxBurst
                    /\ Cardinality(StoredInWindow(e)) >= cfg.maxRequests
                    /\ e.res.allowed = FALSE
                    /\ e.res.remaining = 0
                    /\ e.res.resetAt = reset
                    /\ e.res.retryAfter * 1000 >= reset - e.t
                    /\ (e.res.retryAfter - 1) * 1000 < reset - e.t
                    /\ e.res.retryAfter >= 1

\* C6 witness: a window-rule rejection whose wait is not a whole number of
\* seconds, so that the rounding up shows
C6_Witness ==
    \E i \in DOMAIN log :
        /\ log[i].res.rule = "window"
        /\ log[i].res.retryAfter > 1
        /\ (log[i].res.resetAt - log[i].t) % 1000 # 0

\* C7: for a fresh key, the k-th of the first maxRequests calls issued
\* back-to-back (at one clock reading, as the test's loop does) returns
\* allowed = true and remaining = maxRequests - k.
C7_FirstCallsAllowed ==
    \A id \in Identifiers, ep \in Endpoints :
        LET calls == KeyCalls(id, ep)
        IN  \A k \in DOMAIN calls :
                (k <= cfg.maxRequests /\ calls[k].t = calls[1].t)
                => (Admitted(calls[k]) /\ calls[k].res.remaining = cfg.maxRequests - k)

\* the timing of the end-to-end scenario on the calls c of one key: the first
\* n calls follow it (four calls within one second, the rest at least a second
\* after the fourth, all within the minute that starts with the first)
ScenarioTiming(c, n) ==
    /\ Len(c) >= n
    /\ n >= 3 => c[3].t - c[1].t < 1000
    /\ n >= 4 => c[4].t - c[1].t < 1000
    /\ n >= 5 => c[5].t >= c[4].t + 1000
    /\ n >= 5 => c[n].t - c[1].t < 60000

C3_FailOpen ==
    \A i \in DOMAIN log :
        log[i].fault # "none" =>
            /\ log[i].res.rule # "raised"
            /\ log[i].res.allowed = TRUE
            /\ log[i].mw = "pass"
            /\ log[i].status = 200

\* C4: under any interleaving of concurrent calls for one key, the number of
\* calls admitted within one second stays within a small bound of maxBurst
\* (here: at most twice maxBurst), however many callers race.
C4_RaceBounded ==
    \A i \in DOMAIN log :
        Cardinality(AdmittedIn(i, log[i].t - 1000, log[i].t)) <= 2 * cfg.maxBurst

(***************************************************************************)
(* Claims about the dead-man fuse (SpecFuse)                               *)
(***************************************************************************)
\* the stored lease as the claims describe it: a record exists under the key,
\* its status is 'active', and it is younger than its ttl
LeaseExists == ~fuseKV.null /\ (~fuseKV.expires \/ now < fuseExp)
LeaseLive ==
    /\ LeaseExists
    /\ fuseKV.json
    /\ fuseKV.status = "active"
    /\ now - fuseKV.timestamp < fuseKV.ttl * 1000

\* the last thing done to the fuse was updateDeadManFuse('active'), at a time
\* less than the ttl ago
RefreshedWithinTtl ==
    lastRefresh.kind = "active" /\ now < lastRefresh.t + FuseTtlSec * 1000

\* a step that takes isFuseActive() from false to true is a fresh
\* updateDeadManFuse('active')
OnlyRefreshReactivates ==
    (~IsFuseActive /\ IsFuseActive') =>
        (fuseOps' = fuseOps + 1 /\ lastRefresh' = [kind |-> "active", t |-> now'])

\* C9 as stated: after refreshFuse('active') at time t, isFuseActive() is true
\* at every time in [t, t + ttl*1000) and false from t + ttl*1000 on unless
\* refreshed again; once inactive, only a fresh refreshFuse('active')
\* makes it active again.
C9_Lifecycle_AsStated ==
    /\ [](lastRefresh.kind = "active" => (IsFuseActive <=> RefreshedWithinTtl))
    /\ [][OnlyRefreshReactivates]_vars

\* C9 amended: the same, for a worker whose DEAD_MAN_FUSE store is bound.
C9_Lifecycle ==
    /\ [](fuseBound /\ lastRefresh.kind = "active" => (IsFuseActive <=> RefreshedWithinTtl))
    /\ [][fuseBound => OnlyRefreshReactivates]_vars

\* C9 witness: a bound fuse was refreshed, ran out after 300 s, was found
\* inactive by a call, and has been refreshed again
C9_Witness ==
    /\ fuseBound
    /\ fuseResult.called
    /\ fuseResult.t >= FuseTtlSec * 1000
    /\ ~fuseResult.active
    /\ lastRefresh.kind = "active"
    /\ lastRefresh.t >= fuseResult.t
    /\ IsFuseActive

\* C10 as stated: in every reachable state isFuseActive() is true iff a lease
\* exists, its status is 'active' and now - timestamp < ttl*1000.
C10_ActiveIffLive_AsStated == IsFuseActive <=> LeaseLive

\* C10 amended: with the DEAD_MAN_FUSE store bound, isFuseActive() is true iff
\* a lease exists, its status is 'active' and now - timestamp < ttl*1000 (so a
\* missing lease, one written by refreshFuse('inactive'), an unparsable one and
\* a stale one all give false); with no store bound it is true.
C10_ActiveIffLive ==
    /\ fuseBound => (IsFuseActive <=> LeaseLive)
    /\ fuseBound /\ lastRefresh.kind \in {"none", "inactive", "external"} => ~IsFuseActive
    /\ fuseBound /\ now >= lastRefresh.t + FuseTtlSec * 1000 => ~IsFuseActive
    /\ ~fuseBound => IsFuseActive
    /\ fuseResult.called /\ fuseResult.t = now /\ lastRefresh.t < now
          => fuseResult.active = IsFuseActive

\* C10 witness: a call has answered true for a live lease, and the lease has
\* since been replaced by an inactive one
C10_Witness ==
    /\ fuseBound
    /\ fuseResult.called
    /\ fuseResult.active
    /\ lastRefresh.kind = "inactive"
    /\ LeaseExists
    /\ ~IsFuseActive

(***************************************************************************)
(* Claims about the /api/ghost/* routes (SpecServe)                        *)
(***************************************************************************)
GhostPaths == {HeartbeatPath, ProofPath, BadgePath, RollbackPath}
LastServed == hqLog[Len(hqLog)]

\* C11: with the DEAD_MAN_FUSE store bound, right after a request served
\* (answered 200) by the heartbeat, proof, badge or rollback route the store
\* holds the lease {status 'active', timestamp = the time of that request},
\* and checkDeadManFuse(), as a badge rendered then calls it, is true
C11_RefreshedOnServe ==
    (/\ fuseBound
     /\ hqLog # <<>>
     /\ LastServed.path \in GhostPaths
     /\ LastServed.status = 200
     /\ LastServed.t = now)
    => /\ FuseGet(fuseKV, fuseExp, now) = Lease("active", LastServed.t)
       /\ IsFuseActive

(***************************************************************************)
(* Claims about the monitor's sequential ticks (SpecMonitor)               *)
(***************************************************************************)
\* the history getHealthHistory(h) returns in the current state
StoredHistory(h) == getHealthHistory(healthBound, HealthGet(health, healthExp, h, now))
ProductionHost == hostname(ProductionUrl)
LastTick == pdLog[Len(pdLog)]

\* C12: shouldAlert(target) is true iff the stored history has at least
\* alertThreshold entries and the last alertThreshold of them are all
\* failures; with alertThreshold = 4, [fail,fail,fail,fail] gives true and
\* [fail,fail,fail,success] gives false
C12_ShouldAlertIffStreak ==
    /\ \A h \in Hosts :
          LET hist == StoredHistory(h)
              n == Len(hist)
          IN  shouldAlert(pdCfg, hist) <=>
                 /\ n >= pdCfg.alertThreshold
                 /\ \A i \in 1..n : i > n - pdCfg.alertThreshold => ~hist[i]
    /\ pdCfg.alertThreshold = 4 =>
          /\ shouldAlert(pdCfg, <<FALSE, FALSE, FALSE, FALSE>>)
          /\ ~shouldAlert(pdCfg, <<FALSE, FALSE, FALSE, TRUE>>)

\* C12 witness: with alertThreshold = 4 a failing tick has stored
\* [fail,fail,fail,fail] and shouldAlert let it trigger
C12_Witness ==
    /\ pdCfg.alertThreshold = 4
    /\ pdLog # <<>>
    /\ LastTick.call = "trigger"
    /\ StoredHistory(ProductionHost) = <<FALSE, FALSE, FALSE, FALSE>>
    /\ shouldAlert(pdCfg, StoredHistory(ProductionHost))

\* the ticks for the target of tick i, up to and including tick i
TicksUpTo(i) == {j \in 1..i : pdLog[j].host = pdLog[i].host}
\* the n most recent probes of the target, tick i included, exist and all failed
FailedStreak(i, n) ==
    /\ Cardinality(TicksUpTo(i)) >= n
    /\ \A j \in TicksUpTo(i) :
          Cardinality({k \in TicksUpTo(i) : k >= j}) <= n => ~pdLog[j].success
\* tick i is a failure between two successes (or first, then a success)
IsolatedFailure(i) ==
    /\ ~pdLog[i].success
    /\ i > 1 => pdLog[i - 1].success
    /\ i < Len(pdLog) /\ pdLog[i + 1].success
TriggerOnlyOnStreak ==
    \A i \in DOMAIN pdLog :
       pdLog[i].call = "trigger" =>
          ~pdLog[i].success /\ FailedStreak(i, pdCfg.alertThreshold)

\* C13 as stated: a tick calls triggerIncident only if its probe failed and
\* the alertThreshold most recent probes all failed; an isolated failure
\* followed by recovery never causes a trigger call
C13_TriggerOnlyOnStreak_AsStated ==
    /\ TriggerOnlyOnStreak
    /\ \A i \in DOMAIN pdLog : IsolatedFailure(i) => pdLog[i].call # "trigger"

\* C13: a tick calls triggerIncident only if its probe failed and the
\* alertThreshold most recent probes all failed; with alertThreshold >= 2 an
\* isolated failure followed by recovery never causes a trigger call
C13_TriggerOnlyOnStreak ==
    /\ TriggerOnlyOnStreak
    /\ pdCfg.alertThreshold >= 2 =>
          \A i \in DOMAIN pdLog : IsolatedFailure(i) => pdLog[i].call # "trigger"

\* C13 witness: an isolated failure went by without a trigger call, and a
\* later streak of failures reached the threshold and triggered
C13_Witness ==
    /\ pdCfg.alertThreshold = 2
    /\ \E i \in DOMAIN pdLog, j \in DOMAIN pdLog :
          /\ i < j
          /\ IsolatedFailure(i)
          /\ pdLog[i].call = "none"
          /\ pdLog[j].call = "trigger"

C17_ResolvePaired ==
    \A i \in DOMAIN pdLog :
       pdLog[i].call = "resolve" =>
          \E j \in 1..(i - 1) :
             /\ pdLog[j].call = "trigger"
             /\ pdLog[j].key = pdLog[i].key
             /\ \A k \in (j + 1)..(i - 1) :
                   ~(pdLog[k].call = "resolve" /\ pdLog[k].key = pdLog[i].key)

\* C19: when a tick's trigger or resolve call failed, the next tick for the
\* target, if its probe has the same outcome (and the stored history has not
\* expired in between), makes the same call with the same dedup key
C19_SameCallNextTick ==
    \A i \in DOMAIN pdLog :
       (/\ i < Len(pdLog)
        /\ pdLog[i].call # "none"
        /\ ~pdLog[i].ok
        /\ pdLog[i + 1].host = pdLog[i].host
        /\ pdLog[i + 1].success = pdLog[i].success
        /\ pdLog[i + 1].t - pdLog[i].t < HealthTtlSec * 1000)
       => /\ pdLog[i + 1].call = pdLog[i].call
          /\ pdLog[i + 1].key = pdLog[i].key

(***************************************************************************)
(* Claims about long streaks (SpecStreak)                                  *)
(***************************************************************************)
\* C14: whatever the alertThreshold, a tick whose probe is the
\* alertThreshold-th consecutive failure, or a later one of the same streak,
\* calls triggerIncident
C14_SustainedEscalated ==
    \A i \in DOMAIN pdLog :
       FailedStreak(i, pdCfg.alertThreshold) => pdLog[i].call = "trigger"

\* the ticks so far are alertThreshold failures, then one success, and the
\* first of them found an empty history
FailuresThenSuccess ==
    /\ Len(pdLog) = pdCfg.alertThreshold + 1
    /\ pdLog[1].before = <<>>
    /\ \A i \in 1..pdCfg.alertThreshold : ~pdLog[i].success
    /\ LastTick.success
CallsOf(kind) == {i \in DOMAIN pdLog : pdLog[i].call = kind}

\* C15: from an empty history, alertThreshold failing ticks followed by one
\* succeeding tick make exactly one trigger call, on the alertThreshold-th
\* tick, and exactly one resolve call, on the succeeding tick
C15_FailuresThenSuccess ==
    FailuresThenSuccess =>
       /\ CallsOf("trigger") = {pdCfg.alertThreshold}
       /\ CallsOf("resolve") = {pdCfg.alertThreshold + 1}

(***************************************************************************)
(* Claims about the two targets (SpecTargets)                              *)
(***************************************************************************)
PagingCalls == {i \in DOMAIN pdLog : pdLog[i].call # "none"}
OpenFor(h) == {inc \in pdOpen : inc.host = h}

\* C18: all trigger and resolve calls for one target carry one dedup key,
\* calls for different targets carry different keys, and the paging
\* collaborator, collapsing events by key, has at most one incident open per
\* target
C18_StableDedupKey ==
    /\ \A i \in PagingCalls, j \in PagingCalls :
          (pdLog[i].host = pdLog[j].host) <=> (pdLog[i].key = pdLog[j].key)
    /\ \A h1 \in Hosts, h2 \in Hosts : h1 # h2 => incidentKey(h1) # incidentKey(h2)
    /\ \A h \in Hosts : Cardinality(OpenFor(h)) <= 1

\* C18 witness: both targets have an incident open, and one of them was
\* triggered again on a further failing tick
C18_Witness ==
    /\ \A h \in Hosts : Cardinality(OpenFor(h)) = 1
    /\ \E i \in PagingCalls, j \in PagingCalls :
          /\ i < j
          /\ pdLog[i].host = pdLog[j].host
          /\ pdLog[i].call = "trigger" /\ pdLog[i].ok
          /\ pdLog[j].call = "trigger" /\ pdLog[j].ok

(***************************************************************************)
(* Claims about the monitor running forever (SpecLive)                     *)
(***************************************************************************)
\* C20: an incident opened for the target does not stay open forever once
\* the target is healthy and the paging collaborator reachable for good: again
\* and again the target is down, or the collaborator unreachable, or no
\* incident is open for the target
C20_AutoResolve ==
    []<>(\/ ~targetUp[ProductionHost]
         \/ ~pagerUp
         \/ OpenFor(ProductionHost) = {})

(***************************************************************************)
(* Claims about the probe (SpecProbe)                                      *)
(***************************************************************************)
\* the response is 2xx and its body carries a non-empty signature and
\* verified = true
VerifiedHeartbeat(response) ==
    /\ response.kind = "http"
    /\ responseOk(response)
    /\ response.body.json = "object"
    /\ response.body.signature.type = "string" /\ response.body.signature.v # ""
    /\ response.body.verified = JsTrue

\* the kinds of failure of a probe
FailureKind(response) ==
    IF response.kind # "http" THEN "unreachable"
    ELSE IF ~responseOk(response) THEN "status"
    ELSE IF response.body.json # "object" THEN "unparsable"
    ELSE "signature"

\* the tick that has just been logged
TickLogged == Len(pdLog') = Len(pdLog) + 1
NewTick == pdLog'[Len(pdLog')]

\* C21: checkHeartbeat always returns a record; its success is true exactly
\* when the response is 2xx and the body carries a non-empty signature and
\* verified = true; a failed probe carries an error, probes failing in
\* different ways carry different errors, and the failure is the newest
\* entry of the stored history.
C21_ProbeResult ==
    [][TickLogged =>
         LET response == targetResp[NewTick.host]
             result == NewTick.result
         IN  /\ result.success <=> VerifiedHeartbeat(response)
             /\ ~result.success =>
                   /\ result.error # Undefined
                   /\ \A other \in Responses :
                         (~VerifiedHeartbeat(other)
                          /\ FailureKind(other) # FailureKind(response))
                         => checkHeartbeat(other).error # result.error
                   /\ healthBound =>
                         LET stored == health'[NewTick.host].entries
                         IN  stored # <<>> /\ ~stored[Len(stored)]]_vars

(***************************************************************************)
(* Claims about scheduled events (SpecSched)                               *)
(***************************************************************************)
\* C22: a monitor tick never aborts: whatever the probe, the state store
\* and the paging collaborator do, monitor(url) completes without raising,
\* and the scheduled handler does not fail.
C22_TickNeverAborts ==
    /\ \A i \in DOMAIN pdLog : ~pdLog[i].raised
    /\ schedResult.ran => ~schedResult.raised

(***************************************************************************)
(* Claims about the stored history (SpecHistory)                           *)
(***************************************************************************)
\* the results of the ticks from..Len(pdLog), in the order they were stored
ResultsFrom(from) == [i \in 1..(Len(pdLog) - from + 1) |-> pdLog[from + i - 1].success]
\* every tick after tick i came before the history stored by the one before
\* it had expired
NoGapSince(i) ==
    \A j \in i..(Len(pdLog) - 1) : pdLog[j + 1].t < pdLog[j].t + HealthTtlSec * 1000
\* the first tick of the run of ticks that reaches the last one without a gap
RunStart == CHOOSE i \in DOMAIN pdLog :
               NoGapSince(i) /\ \A j \in DOMAIN pdLog : NoGapSince(j) => i <= j

\* C23, as stated: after any sequence of storeHealthResult calls the stored
\* history has at most 10 entries and is the most recent min(n, 10) results
\* in insertion order.
C23_HistoryFifo_AsStated ==
    /\ Len(StoredHistory(ProductionHost)) <= HistoryCap
    /\ StoredHistory(ProductionHost) = LastN(ResultsFrom(1), HistoryCap)

\* C23, amended: the stored history never has more than 10 entries; until
\* 3600 s pass without a call it is the most recent min(n, 10) results, in
\* insertion order, of the n calls made since the last such pause; 3600 s
\* after the last call it is empty.
C23_HistoryFifo ==
    /\ Len(StoredHistory(ProductionHost)) <= HistoryCap
    /\ StoredHistory(ProductionHost) =
         IF pdLog = <<>> \/ now >= LastTick.t + HealthTtlSec * 1000
         THEN <<>>
         ELSE LastN(ResultsFrom(RunStart), HistoryCap)

\* eleven calls without a pause: the first result has left, the other ten
\* are stored in the order they came
C23_Witness ==
    /\ Len(pdLog) = HistoryCap + 1
    /\ RunStart = 1
    /\ pdLog[1].success # pdLog[2].success
    /\ pdLog[HistoryCap].success # pdLog[HistoryCap + 1].success
    /\ StoredHistory(ProductionHost) = ResultsFrom(2)

(***************************************************************************)
(* Claims about the audit log and the checkpoints (SpecAudit)              *)
(***************************************************************************)
\* C24: a store failure while writing the audit entry or the fuse lease is
\* absorbed: the request that was being served still gets its normal
\* response.
C24_WriteFailureAbsorbed ==
    \A i \in DOMAIN hqLog :
       hqLog[i].fault \in {"fuse", "audit"} => hqLog[i].status = 200

\* the puts of audit entries, and the requests whose logAudit call made them
IsAuditPut(put) == put.key.prefix = "audit"
IsAudited(entry) == entry.auditDraw # Undefined
AuditPuts == SelectSeq(audit, IsAuditPut)
Audited == SelectSeq(hqLog, IsAudited)
\* the requests whose middleware called logAudit, and the call returned
IsDecorated(entry) ==
    entry.path \in {HeartbeatPath, ProofPath, RollbackPath} /\ entry.status = 200
Decorated == SelectSeq(hqLog, IsDecorated)

IsCheckpointPut(put) == put.key.prefix = "checkpoint"
IsGranted(entry) == entry.checkpointDraw # Undefined
CheckpointPuts == SelectSeq(audit, IsCheckpointPut)
Granted == SelectSeq(hqLog, IsGranted)

\* AUDIT_LOG holds at checkpoint:{id} a record with that id and the
\* deployment, the region and the config in force, put without expirationTtl
Persisted(id) ==
    LET key == checkpointKey(id)
        put == audit[LastPut(audit, key)]
    IN  /\ LastPut(audit, key) # 0
        /\ AuditHolds(audit, key, now)
        /\ put.ttl = 0
        /\ put.value.id = id
        /\ put.value.deployment = DeploymentId
        /\ put.value.region = RegionId
        /\ put.value.config = DefaultGhostConfig

\* C26: a checkpoint is created only by an authenticated request: a rollback
\* request whose credentials are missing or invalid gets the auth error and
\* creates no checkpoint, and every checkpoint put belongs to a rollback
\* request whose credentials verified.
C26_CheckpointNeedsAuth ==
    /\ \A i \in DOMAIN hqLog :
          /\ (hqLog[i].path = RollbackPath /\ ~hqLog[i].authOk)
             => /\ hqLog[i].status = 401
                /\ hqLog[i].checkpointId = NoId
                /\ ~IsGranted(hqLog[i])
          /\ IsGranted(hqLog[i]) => hqLog[i].path = RollbackPath /\ hqLog[i].authOk
    /\ Len(CheckpointPuts) = IF auditBound THEN Len(Granted) ELSE 0
    /\ \A k \in DOMAIN CheckpointPuts :
          /\ CheckpointPuts[k].t = Granted[k].t
          /\ Granted[k].authOk

\* a rollback request without valid credentials was turned away, then one
\* with valid credentials created the only checkpoint there is
C26_Witness ==
    /\ auditBound
    /\ Len(hqLog) = 2
    /\ hqLog[1].path = RollbackPath /\ ~hqLog[1].authOk /\ hqLog[1].status = 401
    /\ hqLog[2].path = RollbackPath /\ hqLog[2].authOk /\ hqLog[2].status = 200
    /\ Len(CheckpointPuts) = 1
    /\ CheckpointPuts[1].value.id = hqLog[2].checkpointId

C28_IdIsPersisted_AsStated ==
    \A k \in DOMAIN Granted : Persisted(Granted[k].checkpointId)

\* C28, amended: with AUDIT_LOG bound, every id createRollbackCheckpoint
\* returns identifies a persisted checkpoint; with AUDIT_LOG unbound the id
\* is returned and nothing is stored.
C28_IdIsPersisted ==
    /\ auditBound => \A k \in DOMAIN Granted : Persisted(Granted[k].checkpointId)
    /\ ~auditBound => CheckpointPuts = <<>>

\* a rollback request was answered with an id, time has passed, and the
\* checkpoint is there
C28_Witness ==
    /\ auditBound
    /\ Len(Granted) = 1
    /\ Granted[1].status = 200
    /\ now > Granted[1].t
    /\ Persisted(Granted[1].checkpointId)
    /\ AuditValue(audit, checkpointKey(Granted[1].checkpointId)).timestamp = Granted[1].t

(***************************************************************************)
(* Claims about heartbeat signatures (SpecSign)                            *)
(***************************************************************************)
SignCalls == {i \in DOMAIN sigCalls : sigCalls[i].op = "sign"}
VerifyCalls == {i \in DOMAIN sigCalls : sigCalls[i].op = "verify"}
\* the key material of the environment
KeyMaterial == IF ghostSecret \in {Undefined, ""} THEN "unsigned" ELSE ghostSecret

\* C29: signing is deterministic and of the form digest:keyMaterial, a
\* record verifies against its own signature, and against no other string.
C29_SignVerify ==
    /\ \A i \in SignCalls :
          sigCalls[i].signature = sha256(JSONstringify(sigCalls[i].data)) \o ":" \o KeyMaterial
    /\ \A i, j \in SignCalls :
          sigCalls[i].data = sigCalls[j].data => sigCalls[i].signature = sigCalls[j].signature
    /\ \A i \in SignCalls : \A j \in VerifyCalls :
          sigCalls[i].data = sigCalls[j].data
          => (sigCalls[j].valid <=> sigCalls[j].candidate = sigCalls[i].signature)

\* a record was signed, and a signature made for another record with the
\* same key was then turned down for it
C29_Witness ==
    /\ Len(sigCalls) = 2
    /\ sigCalls[1].op = "sign" /\ sigCalls[2].op = "verify"
    /\ sigCalls[1].data = sigCalls[2].data
    /\ sigCalls[2].data # BaseHeartbeat
    /\ sigCalls[2].candidate = generateHeartbeatSignature(ghostSecret, BaseHeartbeat)
    /\ ~sigCalls[2].valid

\* C30: two records that differ in the value of a field have different
\* signatures under the same key material.
C30_TamperEvident ==
    \A i, j \in SignCalls :
       sigCalls[i].data # sigCalls[j].data => sigCalls[i].signature # sigCalls[j].signature

\* two heartbeats that differ in one counter of their metrics were signed
C30_Witness ==
    /\ Len(sigCalls) = 2
    /\ sigCalls[1].op = "sign" /\ sigCalls[2].op = "sign"
    /\ sigCalls[1].data.metrics = Metrics(1000, 5, 25, 150)
    /\ sigCalls[2].data = [sigCalls[1].data EXCEPT !.metrics.errors = 6]
    /\ sigCalls[1].signature # sigCalls[2].signature

(***************************************************************************)
(* Claims about canary membership and the integrity headers (SpecCanary)   *)
(***************************************************************************)
CanaryCalls == {i \in DOMAIN canaryLog : canaryLog[i].op = "canary"}
HeaderCalls == {i \in DOMAIN canaryLog : canaryLog[i].op = "headers"}

\* C31: shouldServeCanary is a function of the client identifier and the
\* percentage: false at 0, true at 100, otherwise hash(identifier) % 100 <
\* percent with a hash that is not negative; a request with no client address
\* has the identifier 'unknown'; two calls for the same identifier and
\* percentage give the same answer, whatever header the identifier came from.
C31_CanaryFunction ==
    /\ \A i \in CanaryCalls :
          LET e == canaryLog[i]
              hash == simpleHash(e.identifier)
          IN  /\ (e.request.cf = Undefined /\ e.request.xff = Undefined)
                    => e.identifier = "unknown"
              /\ e.percent = 0 => ~e.canary
              /\ e.percent = 100 => e.canary
              /\ e.percent \notin {0, 100} =>
                    /\ ~hash.negative
                    /\ e.canary <=> (jsRem(hash, 100) < e.percent)
    /\ \A i, j \in CanaryCalls :
          (canaryLog[i].identifier = canaryLog[j].identifier
              /\ canaryLog[i].percent = canaryLog[j].percent)
             => canaryLog[i].canary = canaryLog[j].canary

\* two calls at 60 % for one address, once the direct address and once the
\* forwarded one, both served by the canary
C31_Witness ==
    /\ Len(canaryLog) = 2
    /\ CanaryCalls = {1, 2}
    /\ canaryLog[1].percent = 60 /\ canaryLog[2].percent = 60
    /\ canaryLog[1].request # canaryLog[2].request
    /\ canaryLog[1].identifier = canaryLog[2].identifier
    /\ canaryLog[1].canary /\ canaryLog[2].canary

\* parseInt(env.CANARY_PERCENT || '0') for the settings of the model
envPercent == IF canaryEnv = "10" THEN 10 ELSE 0

\* C32: when the configured canary percentage (env.CANARY_PERCENT, or the
\* canaryPercent of the config) is greater than 0, the headers applyGhostHeaders
\* sets hold X-Canary-Deployment: true and X-Canary-Percent with that
\* percentage; at 0 neither is set; X-Deployment-ID and X-Region-ID are always set.
C32_CanaryHeaders ==
    \A i \in HeaderCalls :
        LET e == canaryLog[i]
            configured == IF e.arg.given THEN e.arg.canaryPercent ELSE envPercent
        IN  /\ e.headers.deploymentId # Undefined
            /\ e.headers.regionId # Undefined
            /\ configured > 0 =>
                  /\ e.headers.canaryDeployment = "true"
                  /\ e.headers.canaryPercent = ToString(configured)
            /\ configured = 0 =>
                  /\ e.headers.canaryDeployment = Undefined
                  /\ e.headers.canaryPercent = Undefined

\* C39: canary membership is monotone in the percentage: of two calls for one
\* identifier, if the one at the lower percentage is served by the canary, so
\* is the one at the higher percentage.
C39_CanaryMonotone ==
    \A i, j \in CanaryCalls :
        (/\ canaryLog[i].identifier = canaryLog[j].identifier
         /\ canaryLog[i].percent <= canaryLog[j].percent
         /\ canaryLog[i].canary)
        => canaryLog[j].canary

\* one address is asked about at 50 % and then at 60 %, and is served by the
\* canary at both; another is not at 50 % and is at 60 %
C39_Witness ==
    /\ Len(canaryLog) = 2
    /\ CanaryCalls = {1, 2}
    /\ canaryLog[1].identifier = canaryLog[2].identifier
    /\ canaryLog[1].percent = 50 /\ canaryLog[2].percent = 60
    /\ canaryLog[2].canary

(***************************************************************************)
(* Claims about getIdentifier (SpecIdentity)                               *)
(***************************************************************************)
\* sub occurs in str
Contains(str, sub) ==
    \E i \in 1..(Len(str) - Len(sub) + 1) : SubSeq(str, i, i + Len(sub) - 1) = sub

\* a credential or a header that is there and not empty
Supplied(value) == value # Undefined /\ value # ""

\* the first entry of the forwarded chains of the model
FirstEntry == [xff \in {"10.0.0.1", TestChain} |-> "10.0.0.1"]

\* C33: with a credential getIdentifier returns key:{hash of the credential},
\* and the credential itself occurs neither in the identifier nor in the store
\* key; without one it returns ip:{direct address} if there is one, else
\* ip:{first entry of the forwarded chain}, else ip:unknown.
C33_Identity ==
    \A i \in DOMAIN idLog :
        LET e == idLog[i]
        IN  /\ Supplied(e.apiKey) =>
                  /\ e.identifier = "key:" \o hashString(e.apiKey)
                  /\ ~Contains(e.identifier, e.apiKey)
                  /\ ~Contains(e.key, e.apiKey)
                  /\ e.apiKey = "test-api-key" => e.identifier = "key:fyn1m9"
            /\ (~Supplied(e.apiKey) /\ Supplied(e.request.cf)) =>
                  e.identifier = "ip:" \o e.request.cf
            /\ (~Supplied(e.apiKey) /\ ~Supplied(e.request.cf)) =>
                  IF e.request.xff \in DOMAIN FirstEntry
                  THEN e.identifier = "ip:" \o FirstEntry[e.request.xff]
                  ELSE e.identifier = "ip:unknown"

\* a call with a credential and a direct address, then one with no credential
\* and a chain of two forwarded addresses
C33_Witness ==
    /\ Len(idLog) = 2
    /\ idLog[1].apiKey = "test-api-key" /\ idLog[1].request.cf = "192.168.1.1"
    /\ idLog[1].identifier = "key:fyn1m9"
    /\ idLog[2].apiKey = Undefined /\ idLog[2].request.cf = Undefined
    /\ idLog[2].request.xff = TestChain
    /\ idLog[2].identifier = "ip:10.0.0.1"

(***************************************************************************)
(* Claims about several identifiers and endpoints (SpecQuota)              *)
(***************************************************************************)
\* C34: quotas are tracked per (identifier, endpoint): a checkLimit call
\* leaves the stored window of every key but prefix:identifier:endpoint as
\* it was, and it is rejected only when its own identifier and endpoint have
\* maxBurst admitted calls in the last second or maxRequests in the window.
C34_SeparateQuotas ==
    [][Len(log') = Len(log) + 1 =>
          LET i == Len(log')
              e == log'[i]
          IN  /\ \A k \in DOMAIN kv :
                    k # KeyOf(cfg, e.id, e.ep) => kv'[k] = kv[k] /\ kvExp'[k] = kvExp[k]
              /\ ~e.res.allowed =>
                    \/ Cardinality({j \in 1..(i - 1) :
                           /\ log'[j].id = e.id /\ log'[j].ep = e.ep /\ log'[j].res.allowed
                           /\ log'[j].t > e.t - BurstWindowMs}) >= cfg.maxBurst
                    \/ Cardinality({j \in 1..(i - 1) :
                           /\ log'[j].id = e.id /\ log'[j].ep = e.ep /\ log'[j].res.allowed
                           /\ log'[j].t > e.t - cfg.windowMs}) >= cfg.maxRequests]_vars

(***************************************************************************)
(* Claims about the keys of the stores (SpecStores)                        *)
(***************************************************************************)
StartsWith(str, prefix) == Len(str) >= Len(prefix) /\ SubSeq(str, 1, Len(prefix)) = prefix

Namespaces == {"rl:", "fuse:", "audit:", "checkpoint:", "health:"}

\* the key is in the namespace and in no other
OnlyIn(key, namespace) == \A n \in Namespaces : StartsWith(key, n) <=> n = namespace

\* C35: every key the rate limiter writes starts with rl:, the fuse's with
\* fuse:, the audit entries' with audit:, the checkpoints' with checkpoint: and
\* the monitor's with health:, and none of them lies in the namespace of
\* another component.
C35_KeyNamespaces ==
    [][/\ \A k \in DOMAIN kv :
             (kv'[k] # kv[k] \/ kvExp'[k] # kvExp[k]) => OnlyIn(k, "rl:")
       /\ fuseOps' # fuseOps => OnlyIn(fuseKey, "fuse:")
       /\ \A i \in (Len(audit) + 1)..Len(audit') :
             IF audit'[i].value \in {AuditEntry(audit'[i].value.id, p, 200, audit'[i].t) :
                                        p \in {HeartbeatPath, RollbackPath}}
             THEN OnlyIn(keyString(audit'[i].key), "audit:")
             ELSE OnlyIn(keyString(audit'[i].key), "checkpoint:")
       /\ \A h \in DOMAIN health :
             (health'[h] # health[h] \/ healthExp'[h] # healthExp[h])
                => OnlyIn(healthKey(h), "health:")]_vars

\* every store has been written: a window, the lease, an audit entry, a
\* checkpoint and a health history
C35_Witness ==
    /\ \E k \in DOMAIN kv : ~kv[k].null
    /\ ~fuseKV.null
    /\ \E i \in DOMAIN audit : StartsWith(keyString(audit[i].key), "audit:")
    /\ \E i \in DOMAIN audit : StartsWith(keyString(audit[i].key), "checkpoint:")
    /\ \E h \in DOMAIN health : ~health[h].null

(***************************************************************************)
(* Claims about the windows racing calls write (SpecWrite)                 *)
(***************************************************************************)
\* the step is the RATE_LIMITS.put of an admitted call resolving
PutStep == Len(log') = Len(log) + 1 /\ log'[Len(log')].res.allowed

\* the window the put of the step wrote
Written == kv'[KeyOf(cfg, log'[Len(log')].id, log'[Len(log')].ep)].requests

\* C36, as stated: every window written holds at most maxRequests
\* timestamps, all newer than the time of the write minus windowMs.
C36_WrittenWindow_AsStated ==
    [][PutStep =>
          /\ Len(Written) <= cfg.maxRequests
          /\ \A n \in DOMAIN Written : Written[n] > now' - cfg.windowMs]_vars

\* C36: under any interleaving of concurrent calls, every window written holds
\* at most maxRequests timestamps, all newer than the time the writing call
\* read from the clock minus windowMs, and none later than the time of the write.
C36_WrittenWindow ==
    [][PutStep =>
          /\ Len(Written) <= cfg.maxRequests
          /\ \A n \in DOMAIN Written :
                /\ Written[n] > log'[Len(log')].t - cfg.windowMs
                /\ Written[n] <= now']_vars

\* two admitted calls read the same stored window, so one write lost the
\* entry of the other, and a window is stored
C36_Witness ==
    /\ \E i, j \in DOMAIN log :
          /\ i < j
          /\ log[i].res.allowed /\ log[j].res.allowed
          /\ log[i].id = log[j].id /\ log[i].ep = log[j].ep
          /\ log[i].stored = log[j].stored
    /\ \E k \in DOMAIN kv : ~kv[k].null

(***************************************************************************)
(* Claims about what a call writes (Spec)                                  *)
(***************************************************************************)
\* C37: a rejected checkLimit call writes nothing: the stored window and its
\* expiry are as before; an admitted call overwrites the window of its key
\* with the entries it kept and its own time, and sets the expiry anew.
C37_RejectedWritesNothing ==
    [][Len(log') = Len(log) + 1 =>
          LET e == log'[Len(log')]
              key == KeyOf(cfg, e.id, e.ep)
          IN  /\ ~e.res.allowed => kv' = kv /\ kvExp' = kvExp
              /\ e.res.allowed =>
                    /\ kv'[key] = Stored(Append(validRequests(cfg, e.stored.requests, e.t),
                                                e.t))
                    /\ kvExp'[key] = e.t + saveTtl(cfg) * 1000]_vars

\* the last call was rejected by the window rule, an earlier one by the burst
\* rule, and the store holds the window the last call read
C37_Witness ==
    /\ Len(log) >= 2
    /\ log[Len(log)].res.rule = "window"
    /\ \E i \in DOMAIN log : log[i].res.rule = "burst"
    /\ kv[KeyOf(cfg, log[Len(log)].id, log[Len(log)].ep)] = log[Len(log)].stored

(***************************************************************************)
(* Claims about the retry guidance (SpecRetry)                             *)
(***************************************************************************)
\* log entry i is a rejection and entry i + 1 is the retry made exactly
\* retryAfter seconds later
RetryOf(entries, i) ==
    /\ i + 1 \in DOMAIN entries
    /\ ~entries[i].res.allowed
    /\ entries[i + 1].t = entries[i].t + entries[i].res.retryAfter * 1000

\* C38: a request rejected with retryAfter = r and retried r seconds later,
\* no other request for the key in between, is not rejected by the rule that
\* rejected it, and is admitted when that rule was the window rule.
C38_RetrySufficient ==
    \A i \in DOMAIN log :
        RetryOf(log, i) =>
            /\ log[i + 1].res.rule # log[i].res.rule
            /\ log[i].res.rule = "window" => log[i + 1].res.allowed

\* a retry after a window rejection and a retry after a burst rejection, the
\* latter rejected by the window rule
C38_Witness ==
    /\ \E i \in DOMAIN log : RetryOf(log, i) /\ log[i].res.rule = "window"
    /\ \E i \in DOMAIN log :
          /\ RetryOf(log, i)
          /\ log[i].res.rule = "burst"
          /\ log[i + 1].res.rule = "window"

(***************************************************************************)
(* Claims about the gate of /api/* and /api/health (SpecApi)               *)
(***************************************************************************)
\* the requests of the client that passed the gate in the minute ending at t
PassedInMinute(t) ==
    {p \in apiPasses(apiLog.passes) :
        /\ apiLog.passes[p[1]][p[2]] > t - PublicConfig.windowMs
        /\ apiLog.passes[p[1]][p[2]] <= t}

\* C40: a client that never presented valid credentials passes the gate of
\* one path at most 20 times in any minute, whatever headers it sends.
C40_PublicQuota ==
    ~apiLog.valid => Cardinality(PassedInMinute(now)) <= PublicConfig.maxRequests

====
